---- MODULE Spec2Model ----
(***************************************************************************)
(* Battle Pong: the runtime settings store, the event bus, the scene       *)
(* state machine with the menu scenes that drive it, the paddle and ball   *)
(* entities, and the match session (PongGame) with its resolver, the       *)
(* speed boost powerup and the chaos system.                               *)
(*                                                                         *)
(* Value encoding.  Every settings value is an integer.  Numeric fields    *)
(* carry their number (audio volumes in tenths).  Non-numeric Python       *)
(* values are coded: None = -1, "Battle Pong" = -2, "trail_none" = -3, a   *)
(* class docstring = -4, False = 0.                                        *)
(***************************************************************************)
EXTENDS Integers, Sequences, FiniteSets, TLC

VARIABLES
    settings,        \* RuntimeSettings: section -> attribute -> value
    patchCall,       \* the last patch call: arguments, outcome, return value
    nPatches,        \* number of patch calls made so far
    listeners,       \* EventBus._listeners: event kind -> list of listeners
    subLog,          \* every subscribe call so far, in call order
    busCall,         \* the last bus call and the listeners it invoked
    current,         \* SceneManager.current
    history,         \* SceneManager._history
    hooks,           \* on_exit / on_enter calls fired by the last operation
    entered,         \* scene -> it received on_enter and no on_exit since
    reentered,       \* some scene received on_enter while already entered
    sceneCall,       \* the last scene operation and the state it started in
    return_scene,    \* SettingsScene.return_scene
    bot_difficulty,  \* GameApp.ctx["bot_difficulty"]
    game,            \* PlayScene.game: NoGame or the live PongGame
    gamesMade,       \* number of PongGame objects constructed so far
    confirm_open,    \* ShopScene.confirm_open
    quitPosted,      \* a pygame.QUIT event has been posted
    running,         \* GameApp.running
    loop,            \* GameApp.run: "frames" while looping, "quit" after it
    settingsData,    \* SettingsScene.data, in tenths
    nAdjust,         \* adjustment keys pressed in the settings scene so far
    selected_items,  \* categories in GameApp.ctx["selected_items"]
    loadout_trail,   \* "trail" in InventoryScene.loadout
    nSelects,        \* inventory items selected so far
    paddle,          \* a Paddle: y and speed_multiplier
    paddleCall,      \* the last Paddle.update call
    match,           \* a PongGame: paddles, balls, score, timers, surface
    matchCall,       \* the last operation on the PongGame and what it published
    nFrames,         \* PongGame.update calls made so far
    nRequests,       \* events published on the bus from outside the PongGame
    ballLog,         \* every ball number _spawn_balls has assigned, in order
    ball,            \* a Ball handed to bounce_from_paddle
    bounceCall       \* the last bounce_from_paddle call

settingsVars == <<settings, patchCall, nPatches>>
busVars == <<listeners, subLog, busCall>>
managerVars == <<current, history, hooks, entered, reentered, sceneCall>>
appVars == <<return_scene, bot_difficulty, game, gamesMade, confirm_open,
             quitPosted, running, loop, settingsData, nAdjust, selected_items,
             loadout_trail, nSelects>>
paddleVars == <<paddle, paddleCall>>
matchVars == <<match, matchCall, nFrames, nRequests, ballLog, ball, bounceCall>>
vars == <<settingsVars, busVars, managerVars, appVars, paddleVars, matchVars>>

(***************************************************************************)
(* Bounds                                                                  *)
(***************************************************************************)
MaxPatches == 2       \* patch calls per behaviour
MaxKeys == 2          \* keyword arguments per patch call

None == "None"

\* PlayScene.game is None
NoGame == [id |-> 0, bot_mode |-> None]

Min(a, b) == IF a < b THEN a ELSE b
Max(a, b) == IF a > b THEN a ELSE b

Range(s) == {s[i] : i \in 1..Len(s)}

(***************************************************************************)
(* Settings store                                                          *)
(***************************************************************************)
Sections == {"display", "paddle", "ball", "sprites", "audio", "trail", "match"}

\* Fields of each section dataclass, in declaration order.
FieldSeq(s) ==
    CASE s = "display" -> <<"width", "height", "title", "fps">>
      [] s = "paddle"  -> <<"width", "height", "speed", "margin_x">>
      [] s = "ball"    -> <<"size", "speed", "max_bounce_angle_deg", "count_on_reset">>
      [] s = "sprites" -> <<"ball_image", "paddle_image", "background_image",
                            "ball_rotation_speed", "tile_background">>
      [] s = "audio"   -> <<"master_volume", "sfx_volume", "screen_shake">>
      [] s = "trail"   -> <<"effect">>
      [] s = "match"   -> <<"win_score">>

Fields(s) == Range(FieldSeq(s))

\* Attributes every section object has from its class besides its fields.
ClassAttrs == {"__doc__"}

\* Attributes of the RuntimeSettings object that are not sections.
SettingsOtherAttrs == {"patch"}

DisplaySettings ==
    [width |-> 960, height |-> 540, title |-> -2, fps |-> 60, __doc__ |-> -4]

PaddleSettings ==
    [width |-> 16, height |-> 110, speed |-> 420, margin_x |-> 32, __doc__ |-> -4]

BallSettings ==
    [size |-> 16, speed |-> 300, max_bounce_angle_deg |-> 65, count_on_reset |-> 1,
     __doc__ |-> -4]

SpriteSettings ==
    [ball_image |-> -1, paddle_image |-> -1, background_image |-> -1,
     ball_rotation_speed |-> 180, tile_background |-> 0, __doc__ |-> -4]

AudioSettings ==
    [master_volume |-> 10, sfx_volume |-> 10, screen_shake |-> 5, __doc__ |-> -4]

TrailSettings == [effect |-> -3, __doc__ |-> -4]

MatchSettings == [win_score |-> 10, __doc__ |-> -4]

RuntimeSettings ==
    [display |-> DisplaySettings, paddle |-> PaddleSettings, ball |-> BallSettings,
     sprites |-> SpriteSettings, audio |-> AudioSettings, trail |-> TrailSettings,
     match |-> MatchSettings]

\* getattr(self, section, None): the section object, another attribute of
\* the settings object, or None.
GetAttr(section) ==
    IF section \in Sections THEN "section"
    ELSE IF section \in SettingsOtherAttrs THEN "method"
    ELSE None

\* hasattr(target, key)
HasAttr(store, section, key) ==
    IF GetAttr(section) = "section" THEN key \in DOMAIN store[section]
    ELSE key \in ClassAttrs

\* The for loop of patch from item i on: st is the store, applied the
\* dictionary built so far (as the list of its items in insertion order).
RECURSIVE PatchLoop(_, _, _, _, _)
PatchLoop(st, section, values, i, applied) ==
    IF i > Len(values)
    THEN [store |-> st, outcome |-> "ok", applied |-> applied]
    ELSE LET key == values[i][1]
             value == values[i][2]
         IN IF ~HasAttr(st, section, key)
            THEN [store |-> st, outcome |-> "unknown_field", applied |-> <<>>]
            ELSE IF GetAttr(section) # "section"
            THEN \* setattr on a bound method raises AttributeError
                 [store |-> st, outcome |-> "attribute_error", applied |-> <<>>]
            ELSE PatchLoop([st EXCEPT ![section][key] = value], section, values,
                           i + 1, Append(applied, <<key, value>>))

\* patch that validates and echoes but assigns nothing
patch_NoAssign(st, section, values) ==
    IF GetAttr(section) = None
    THEN [store |-> st, outcome |-> "unknown_section", applied |-> <<>>]
    ELSE [PatchLoop(st, section, values, 1, <<>>) EXCEPT !.store = st]

\* RuntimeSettings.patch(section, **values): the store afterwards, how the
\* call ended, and the dictionary returned (empty when it raised).
patch(st, section, values) ==
    IF GetAttr(section) = None
    THEN [store |-> st, outcome |-> "unknown_section", applied |-> <<>>]
    ELSE PatchLoop(st, section, values, 1, <<>>)

\* Inputs of the patch calls explored.
SectionArgs == Sections \cup SettingsOtherAttrs \cup {"bogus"}

PatchValues == {250}

\* The fields patch calls name: two of each section that has two.
PatchFields(section) ==
    CASE section = "display" -> {"width", "height"}
      [] section = "paddle"  -> {"height", "speed"}
      [] section = "ball"    -> {"speed", "size"}
      [] section = "sprites" -> {"paddle_image", "ball_image"}
      [] section = "audio"   -> {"master_volume", "sfx_volume"}
      [] section = "trail"   -> {"effect"}
      [] section = "match"   -> {"win_score"}

\* Keys tried: for a section its fields above and a name it does not have;
\* for another attribute a field name, an unknown name and an attribute the
\* target has.
KeyPool(section) ==
    IF section \in Sections THEN PatchFields(section) \cup {"bogus"}
    ELSE {"speed", "bogus"} \cup ClassAttrs

\* Keyword dictionaries: lists of (key, value) items with distinct keys.
ValuesArgs(section) ==
    UNION {{v \in [1..n -> KeyPool(section) \X PatchValues] :
               \A i, j \in 1..n : i # j => v[i][1] # v[j][1]} : n \in 0..MaxKeys}

NoPatchCall ==
    [section |-> None, values |-> <<>>, before |-> RuntimeSettings,
     outcome |-> None, applied |-> <<>>]

Patch(section, values) ==
    /\ nPatches < MaxPatches
    /\ LET r == patch(settings, section, values)
       IN /\ settings' = r.store
          /\ patchCall' = [section |-> section, values |-> values,
                           before |-> settings,
                           outcome |-> r.outcome, applied |-> r.applied]
    /\ nPatches' = nPatches + 1
    /\ UNCHANGED <<busVars, managerVars, appVars, paddleVars, matchVars>>

(***************************************************************************)
(* Initial values of the parts a specification does not exercise           *)
(***************************************************************************)
InitSettings ==
    /\ settings = RuntimeSettings
    /\ patchCall = NoPatchCall
    /\ nPatches = 0

InitBusIdle ==
    /\ listeners = <<>>
    /\ subLog = <<>>
    /\ busCall = [op |-> None]

InitManagerIdle ==
    /\ current = None
    /\ history = <<>>
    /\ hooks = <<>>
    /\ entered = <<>>
    /\ reentered = FALSE
    /\ sceneCall = [op |-> None, name |-> None, error |-> None,
                    before |-> [current |-> None, history |-> <<>>]]

InitAppIdle ==
    /\ return_scene = "title"
    /\ bot_difficulty = "easy"
    /\ game = NoGame
    /\ gamesMade = 0
    /\ confirm_open = FALSE
    /\ quitPosted = FALSE
    /\ running = TRUE
    /\ loop = "frames"
    /\ settingsData = [master_volume |-> 10, sfx_volume |-> 10, screen_shake |-> 5]
    /\ nAdjust = 0
    /\ selected_items = {}
    /\ loadout_trail = FALSE
    /\ nSelects = 0

InitPaddleIdle ==
    /\ paddle = [y |-> 0, speed_multiplier |-> 100]
    /\ paddleCall = [op |-> None, dt |-> 0, up |-> FALSE, down |-> FALSE, before |-> 0]

InitMatchIdle ==
    /\ match = [bot_mode |-> None]
    /\ matchCall = [op |-> None]
    /\ nFrames = 0
    /\ nRequests = 0
    /\ ballLog = <<>>
    /\ ball = [ball_id |-> 0]
    /\ bounceCall = [op |-> None, n |-> 0]

(***************************************************************************)
(* The settings store under arbitrary patch calls                          *)
(***************************************************************************)
InitSettingsSpec ==
    /\ InitSettings
    /\ InitBusIdle
    /\ InitManagerIdle
    /\ InitAppIdle
    /\ InitPaddleIdle
    /\ InitMatchIdle

NextSettings == \E section \in SectionArgs : \E values \in ValuesArgs(section) :
                    Patch(section, values)

SpecSettings == InitSettingsSpec /\ [][NextSettings]_vars

(***************************************************************************)
(* Claims about the settings store                                         *)
(***************************************************************************)
PatchedKeys == {patchCall.values[i][1] : i \in 1..Len(patchCall.values)}

\* The store differs from the store before the last call at most in the
\* named fields of the named section.
OnlyChanged(section, keys) ==
    \A s \in Sections : \A a \in DOMAIN settings[s] :
        (s # section \/ a \notin keys) => settings[s][a] = patchCall.before[s][a]

\* C1: a patch of a known section whose values name at least one unknown
\* field fails with an error and leaves every field of every section as it
\* was before the call.
C1_AllOrNothing ==
    (patchCall.section \in Sections /\ PatchedKeys \ Fields(patchCall.section) # {})
        => /\ patchCall.outcome \in {"unknown_field", "unknown_section", "attribute_error"}
           /\ settings = patchCall.before

\* C2: a patch of a known section whose keys are all known fields of that
\* section returns a mapping equal to the input values, each patched field
\* reads back the patched value, and every field not named is unchanged.
C2_PatchApplies ==
    (patchCall.section \in Sections /\ PatchedKeys \subseteq Fields(patchCall.section))
        => /\ patchCall.outcome = "ok"
           /\ Range(patchCall.applied) = Range(patchCall.values)
           /\ Len(patchCall.applied) = Len(patchCall.values)
           /\ \A i \in 1..Len(patchCall.values) :
                  settings[patchCall.section][patchCall.values[i][1]]
                      = patchCall.values[i][2]
           /\ OnlyChanged(patchCall.section, PatchedKeys)

\* A second patch, of two known fields of ball, applied on a store that an
\* earlier patch had already changed.
C2_Witness ==
    /\ patchCall.section = "ball"
    /\ Len(patchCall.values) = 2
    /\ PatchedKeys \subseteq Fields("ball")
    /\ patchCall.before # RuntimeSettings
    /\ patchCall.before.ball = BallSettings
    /\ settings.ball.speed = 250

\* C3: a patch whose section name is not one of the seven schema sections
\* fails with the unknown-section error and changes nothing.
C3_UnknownSection ==
    (patchCall.section # None /\ patchCall.section \notin Sections)
        => /\ patchCall.outcome = "unknown_section"
           /\ settings = patchCall.before

(***************************************************************************)
(* Event bus                                                               *)
(***************************************************************************)
MaxSubs == 4          \* subscribe calls per behaviour

\* The event classes of events.py; GameEvent is the base class of the rest.
EventKinds == {"GameEvent", "BallHitPaddle", "PointScored", "RoundReset"}

Listeners == {"l1", "l2"}

\* self._listeners[kind] on the defaultdict: a missing key reads as the
\* empty list, and reading it inserts the key.
Touch(ls, kind) ==
    [k \in DOMAIN ls \cup {kind} |-> IF k \in DOMAIN ls THEN ls[k] ELSE <<>>]

\* EventBus.subscribe with the listener put at the front of the list
subscribe_Prepend(ls, kind, listener) ==
    [Touch(ls, kind) EXCEPT ![kind] = <<listener>> \o @]

\* EventBus.subscribe(event_cls, listener)
subscribe(ls, kind, listener) ==
    [Touch(ls, kind) EXCEPT ![kind] = Append(@, listener)]

\* The for loop of publish from position i on; each listener called is
\* recorded with the kind of the event it was handed.
RECURSIVE Dispatch(_, _, _, _)
Dispatch(list, kind, i, invoked) ==
    IF i > Len(list) THEN invoked
    ELSE Dispatch(list, kind, i + 1, Append(invoked, <<list[i], kind>>))

\* EventBus.publish(event) for an event of class kind
publish(ls, kind) ==
    [listeners |-> Touch(ls, kind),
     invoked |-> Dispatch(Touch(ls, kind)[kind], kind, 1, <<>>)]

Subscribe(kind, listener) ==
    /\ Len(subLog) < MaxSubs
    /\ listeners' = subscribe(listeners, kind, listener)
    /\ subLog' = Append(subLog, <<kind, listener>>)
    /\ busCall' = [op |-> "subscribe", kind |-> kind, invoked |-> <<>>]
    /\ UNCHANGED <<settingsVars, managerVars, appVars, paddleVars, matchVars>>

Publish(kind) ==
    /\ LET r == publish(listeners, kind)
       IN /\ listeners' = r.listeners
          /\ busCall' = [op |-> "publish", kind |-> kind, invoked |-> r.invoked]
    /\ UNCHANGED <<subLog, settingsVars, managerVars, appVars, paddleVars, matchVars>>

InitBusSpec ==
    /\ InitSettings
    /\ InitBusIdle
    /\ InitManagerIdle
    /\ InitAppIdle
    /\ InitPaddleIdle
    /\ InitMatchIdle

NextBus ==
    \/ \E kind \in EventKinds : \E listener \in Listeners : Subscribe(kind, listener)
    \/ \E kind \in EventKinds : Publish(kind)

SpecBus == InitBusSpec /\ [][NextBus]_vars

\* The subscribe calls made so far for one kind, in call order.
SubscribedFor(kind) == SelectSeq(subLog, LAMBDA s : s[1] = kind)

\* C4: publish(e) invokes exactly the listeners subscribed for e's kind,
\* once per subscription, in subscription order, each with an event of that
\* kind, and no listener subscribed for another kind.
C4_PublishOrder ==
    busCall.op = "publish"
        => /\ Len(busCall.invoked) = Len(SubscribedFor(busCall.kind))
           /\ \A i \in 1..Len(busCall.invoked) :
                  busCall.invoked[i] = <<SubscribedFor(busCall.kind)[i][2], busCall.kind>>

\* A publish that reached two different listeners, one of them subscribed
\* twice, while another kind had a subscriber.
C4_Witness ==
    /\ busCall.op = "publish"
    /\ Len(busCall.invoked) = 3
    /\ busCall.invoked[1][1] # busCall.invoked[2][1]
    /\ busCall.invoked[1][1] = busCall.invoked[3][1]
    /\ \E k \in DOMAIN listeners : k # busCall.kind /\ listeners[k] # <<>>

(***************************************************************************)
(* Scene manager                                                           *)
(***************************************************************************)
MaxHistory == 3       \* length of _history under direct manager calls

\* SceneManager.scenes after the eight register calls of GameApp.__init__
scenes ==
    {"title", "mode_select", "play_menu", "play", "pause", "inventory", "shop",
     "settings"}

\* Python truth value of self.current (a string or None)
Truthy(name) == name # None /\ name # ""

\* A manager together with the hook calls of the operation in progress.
Manager ==
    [current |-> current, history |-> history, hooks |-> <<>>,
     entered |-> entered, reentered |-> reentered, error |-> None]

\* Each hook call is logged with the scene it is called on and with
\* current and len(_history) at the moment of the call.
HookCall(m, hook, scene) ==
    [hook |-> hook, scene |-> scene, current |-> m.current, depth |-> Len(m.history)]

\* self.scenes[name].on_exit()
on_exit(m, name) ==
    IF name \notin scenes THEN [m EXCEPT !.error = "KeyError"]
    ELSE [m EXCEPT !.hooks = Append(@, HookCall(m, "on_exit", name)),
                   !.entered[name] = FALSE]

\* self.scenes[name].on_enter()
on_enter(m, name) ==
    IF name \notin scenes THEN [m EXCEPT !.error = "KeyError"]
    ELSE [m EXCEPT !.hooks = Append(@, HookCall(m, "on_enter", name)),
                   !.reentered = @ \/ m.entered[name],
                   !.entered[name] = TRUE]

\* set_scene that fires on_enter of the new scene before it leaves the old one
set_scene_EnterFirst(m, name) ==
    IF m.current = name THEN m
    ELSE LET inside == on_enter(m, name)
             left == IF Truthy(m.current) /\ inside.error = None
                     THEN on_exit(inside, m.current) ELSE inside
             pushed == IF Truthy(m.current) /\ left.error = None
                       THEN [left EXCEPT !.history = Append(@, m.current)]
                       ELSE left
         IN IF pushed.error # None THEN pushed
            ELSE [pushed EXCEPT !.current = name]

\* set_scene that leaves the stack alone when it returns to the scene on top
set_scene_NoRepush(m, name) ==
    IF m.current = name THEN m
    ELSE LET left == IF Truthy(m.current) THEN on_exit(m, m.current) ELSE m
             pushed == IF Truthy(m.current) /\ left.error = None
                          /\ ~(m.history # <<>> /\ m.history[Len(m.history)] = name)
                       THEN [left EXCEPT !.history = Append(@, m.current)]
                       ELSE left
         IN IF pushed.error # None THEN pushed
            ELSE on_enter([pushed EXCEPT !.current = name], name)

\* SceneManager.set_scene(name)
set_scene(m, name) ==
    IF m.current = name THEN m
    ELSE LET left == IF Truthy(m.current) THEN on_exit(m, m.current) ELSE m
             pushed == IF Truthy(m.current) /\ left.error = None
                       THEN [left EXCEPT !.history = Append(@, m.current)]
                       ELSE left
         IN IF pushed.error # None THEN pushed
            ELSE on_enter([pushed EXCEPT !.current = name], name)

\* go_back that pushes the scene being left, as set_scene does
go_back_Pushes(m) ==
    IF m.history = <<>> THEN m
    ELSE LET prev == m.history[Len(m.history)]
             popped == [m EXCEPT !.history =
                            Append(SubSeq(@, 1, Len(@) - 1), m.current)]
             left == IF Truthy(popped.current) THEN on_exit(popped, popped.current)
                     ELSE popped
         IN IF left.error # None THEN left
            ELSE on_enter([left EXCEPT !.current = prev], prev)

\* go_back that enters the previous scene without leaving the current one
go_back_NoExit(m) ==
    IF m.history = <<>> THEN m
    ELSE LET prev == m.history[Len(m.history)]
             popped == [m EXCEPT !.history = SubSeq(@, 1, Len(@) - 1)]
         IN on_enter([popped EXCEPT !.current = prev], prev)

\* SceneManager.go_back()
go_back(m) ==
    IF m.history = <<>> THEN m
    ELSE LET prev == m.history[Len(m.history)]
             popped == [m EXCEPT !.history = SubSeq(@, 1, Len(@) - 1)]
             left == IF Truthy(popped.current) THEN on_exit(popped, popped.current)
                     ELSE popped
         IN IF left.error # None THEN left
            ELSE on_enter([left EXCEPT !.current = prev], prev)

\* The manager variables after an operation that took the manager to m.
ManagerBecomes(m, op, name) ==
    /\ current' = m.current
    /\ history' = m.history
    /\ hooks' = m.hooks
    /\ entered' = m.entered
    /\ reentered' = m.reentered
    /\ sceneCall' = [op |-> op, name |-> name, error |-> m.error,
                     before |-> [current |-> current, history |-> history]]

SetScene(name) ==
    /\ (Len(history) < MaxHistory \/ current = name \/ ~Truthy(current))
    /\ ManagerBecomes(set_scene(Manager, name), "set_scene", name)
    /\ UNCHANGED <<settingsVars, busVars, appVars, paddleVars, matchVars>>

GoBack ==
    /\ ManagerBecomes(go_back(Manager), "go_back", None)
    /\ UNCHANGED <<settingsVars, busVars, appVars, paddleVars, matchVars>>

\* SceneManager() followed by the register calls: no scene is current yet.
InitManager ==
    /\ current = None
    /\ history = <<>>
    /\ hooks = <<>>
    /\ entered = [s \in scenes |-> FALSE]
    /\ reentered = FALSE
    /\ sceneCall = [op |-> None, name |-> None, error |-> None,
                    before |-> [current |-> None, history |-> <<>>]]

InitManagerSpec ==
    /\ InitSettings
    /\ InitBusIdle
    /\ InitManager
    /\ InitAppIdle
    /\ InitPaddleIdle
    /\ InitMatchIdle

NextManager ==
    \/ \E name \in scenes : SetScene(name)
    \/ GoBack

SpecManager == InitManagerSpec /\ [][NextManager]_vars

(***************************************************************************)
(* Claims about the scene manager                                          *)
(***************************************************************************)
Before == sceneCall.before

\* The hook calls of the last operation as (hook, scene) pairs.
HookNames == [i \in 1..Len(hooks) |-> <<hooks[i].hook, hooks[i].scene>>]

\* C5: set_scene(name) with a registered name changes nothing and fires no
\* hook when name is current; otherwise on_exit of the current scene fires
\* (if there is one), then the outgoing name is pushed on the history, then
\* current becomes name, then on_enter of the new scene fires.
C5_SetScene ==
    (sceneCall.op = "set_scene" /\ sceneCall.name \in scenes)
        => IF sceneCall.name = Before.current
           THEN current = Before.current /\ history = Before.history /\ hooks = <<>>
           ELSE /\ sceneCall.error = None
                /\ current = sceneCall.name
                /\ IF Before.current = None
                   THEN /\ history = Before.history
                        /\ hooks = <<[hook |-> "on_enter", scene |-> sceneCall.name,
                                      current |-> sceneCall.name,
                                      depth |-> Len(Before.history)]>>
                   ELSE /\ history = Append(Before.history, Before.current)
                        /\ hooks = <<[hook |-> "on_exit", scene |-> Before.current,
                                      current |-> Before.current,
                                      depth |-> Len(Before.history)],
                                     [hook |-> "on_enter", scene |-> sceneCall.name,
                                      current |-> sceneCall.name,
                                      depth |-> Len(Before.history) + 1]>>

\* A set_scene that left one scene for another with scenes already stacked.
C5_Witness ==
    /\ sceneCall.op = "set_scene"
    /\ Before.current \in scenes
    /\ sceneCall.name # Before.current
    /\ Before.history # <<>>
    /\ Len(hooks) = 2

\* C7: go_back() with an empty history changes nothing and fires no hook;
\* with a non-empty history it pops the top name, fires on_exit on the
\* current scene, makes the popped scene current and fires its on_enter, and
\* does not push the scene being left.
C7_GoBack ==
    sceneCall.op = "go_back"
        => IF Before.history = <<>>
           THEN current = Before.current /\ history = Before.history /\ hooks = <<>>
           ELSE /\ sceneCall.error = None
                /\ history = SubSeq(Before.history, 1, Len(Before.history) - 1)
                /\ current = Before.history[Len(Before.history)]
                /\ hooks = <<[hook |-> "on_exit", scene |-> Before.current,
                              current |-> Before.current, depth |-> Len(history)],
                             [hook |-> "on_enter", scene |-> current,
                              current |-> current, depth |-> Len(history)]>>

\* A go_back that popped one of two stacked scenes.
C7_Witness ==
    /\ sceneCall.op = "go_back"
    /\ Len(Before.history) = 2
    /\ Len(history) = 1
    /\ current # Before.current

\* C8: every scene change by set_scene or go_back invokes on_exit of the
\* outgoing scene exactly once and then on_enter of the incoming scene
\* exactly once, and no scene receives on_enter while it is entered.
C8_ExitBeforeEnter ==
    /\ ~reentered
    /\ (sceneCall.op \in {"set_scene", "go_back"} /\ current # Before.current)
           => HookNames = (IF Before.current = None THEN <<>>
                           ELSE <<<<"on_exit", Before.current>>>>)
                          \o <<<<"on_enter", current>>>>
    /\ (sceneCall.op \in {"set_scene", "go_back"} /\ current = Before.current)
           => hooks = <<>>
    /\ \A s \in DOMAIN entered : entered[s] <=> s = current

\* A go_back that returned to a scene entered before, after a set_scene.
C8_Witness ==
    /\ sceneCall.op = "go_back"
    /\ current # Before.current
    /\ Len(hooks) = 2
    /\ Before.current \in scenes

(***************************************************************************)
(* The application: menu scenes driving the scene manager                  *)
(***************************************************************************)
MaxAppHistory == 6    \* length of _history in the running application
MaxGames == 2         \* PongGame objects constructed per behaviour
MaxAdjust == 1        \* volume / shake key presses in the settings scene
MaxSelects == 1       \* item selections in the inventory scene

Difficulties == {"easy", "medium", "hard", "ai"}

\* Codes of the strings an inventory item carries: its sprite path and
\* the id of a trail.
SpritePath == 7
TrailId == 8

\* PongGame.__init__ and the objects it builds subscribe, in this order.
PongGameSubscribes(ls, id) ==
    LET l1 == subscribe(ls, "PointScored", [owner |-> id, handler |-> "_on_point_scored"])
        l2 == subscribe(l1, "SettingsChangeRequested",
                        [owner |-> id, handler |-> "_on_settings_change_requested"])
        l3 == subscribe(l2, "SpawnBallRequested",
                        [owner |-> id, handler |-> "_on_spawn_request"])
        l4 == subscribe(l3, "SettingsChanged",
                        [owner |-> id, handler |-> "skins._on_settings_changed"])
        l5 == subscribe(l4, "BallHitPaddle",
                        [owner |-> id, handler |-> "speed_boost._on_hit"])
    IN subscribe(l5, "PointScored",
                 [owner |-> id, handler |-> "speed_boost._on_point_scored"])

\* publish(SettingsChangeRequested(..)) on a bus that queues an event
\* published during a dispatch and delivers it after the outer dispatch
RECURSIVE RequestLoop_Deferred(_, _, _, _, _, _)
RequestLoop_Deferred(st, ls, i, section, values, invoked) ==
    LET handlers == ls["SettingsChangeRequested"]
    IN IF i > Len(handlers)
       THEN [store |-> st, listeners |-> ls, invoked |-> invoked, error |-> None]
       ELSE LET called == Append(invoked, <<handlers[i], "SettingsChangeRequested">>)
                r == patch(st, section, values)
                changed == publish(ls, "SettingsChanged")
            IN IF r.outcome # "ok"
               THEN [store |-> r.store, listeners |-> ls, invoked |-> called,
                     error |-> r.outcome]
               ELSE [RequestLoop_Deferred(r.store, changed.listeners, i + 1, section,
                                          values, called)
                         EXCEPT !.invoked = @ \o changed.invoked]

\* publish(SettingsChangeRequested(section, values)) from handler i on.
\* Each PongGame._on_settings_change_requested patches the store and
\* publishes SettingsChanged, which reaches the skin managers; an error
\* raised by patch ends the dispatch.
RECURSIVE RequestLoop(_, _, _, _, _, _)
RequestLoop(st, ls, i, section, values, invoked) ==
    LET handlers == ls["SettingsChangeRequested"]
    IN IF i > Len(handlers)
       THEN [store |-> st, listeners |-> ls, invoked |-> invoked, error |-> None]
       ELSE LET called == Append(invoked, <<handlers[i], "SettingsChangeRequested">>)
                r == patch(st, section, values)
                changed == publish(ls, "SettingsChanged")
            IN IF r.outcome # "ok"
               THEN [store |-> r.store, listeners |-> ls, invoked |-> called,
                     error |-> r.outcome]
               ELSE RequestLoop(r.store, changed.listeners, i + 1, section, values,
                                called \o changed.invoked)

PublishSettingsChangeRequested(st, ls, section, values) ==
    RequestLoop(st, Touch(ls, "SettingsChangeRequested"), 1, section, values, <<>>)

\* PlayScene.on_enter, when the operation that led to m fired it.
PlayEntered(m) ==
    \E i \in 1..Len(m.hooks) : m.hooks[i].hook = "on_enter" /\ m.hooks[i].scene = "play"

PlaySceneOnEnter(m) ==
    IF ~PlayEntered(m)
    THEN UNCHANGED <<game, gamesMade, listeners>>
    ELSE IF game = NoGame
    THEN /\ game' = [id |-> gamesMade + 1, bot_mode |-> bot_difficulty']
         /\ gamesMade' = gamesMade + 1
         /\ listeners' = PongGameSubscribes(listeners, gamesMade + 1)
    ELSE /\ game' = [game EXCEPT !.bot_mode = bot_difficulty']
         /\ UNCHANGED <<gamesMade, listeners>>

\* An event is handled while the run loop is looping, by the current scene.
Handles(scene) == loop = "frames" /\ current = scene

\* A handler whose only effect is manager.set_scene(name).
Goes(name) == ManagerBecomes(set_scene(Manager, name), "set_scene", name)

\* TitleScene._route without the test for the "exit" target
TitleRoute_NoExitTest(label) ==
    /\ Handles("title")
    /\ LET target == CASE label = "Play" -> "mode_select"
                       [] label = "Inventory" -> "inventory"
                       [] label = "Shop" -> "shop"
                       [] label = "Settings" -> "settings"
                       [] label = "Exit" -> "exit"
       IN /\ Goes(target)
          /\ return_scene' = IF target = "settings" THEN "title" ELSE return_scene
          /\ \E fromFile \in BOOLEAN :
                 loadout_trail' = IF target = "inventory" THEN fromFile ELSE loadout_trail
          /\ UNCHANGED quitPosted
    /\ UNCHANGED <<settingsVars, busVars, paddleVars, matchVars, bot_difficulty, game, gamesMade,
                   confirm_open, running, loop, settingsData, nAdjust,
                   selected_items, nSelects>>

\* TitleScene._route(label), the click on one of the five title buttons
TitleRoute(label) ==
    /\ Handles("title")
    /\ LET target == CASE label = "Play" -> "mode_select"
                       [] label = "Inventory" -> "inventory"
                       [] label = "Shop" -> "shop"
                       [] label = "Settings" -> "settings"
                       [] label = "Exit" -> "exit"
       IN IF target = "exit"
          THEN /\ quitPosted' = TRUE
               /\ UNCHANGED <<managerVars, return_scene, loadout_trail>>
          ELSE /\ Goes(target)
               /\ return_scene' = IF target = "settings" THEN "title" ELSE return_scene
               \* InventoryScene.on_enter reloads the loadout document
               /\ \E fromFile \in BOOLEAN :
                      loadout_trail' = IF target = "inventory" THEN fromFile
                                       ELSE loadout_trail
               /\ UNCHANGED quitPosted
    /\ UNCHANGED <<settingsVars, busVars, paddleVars, matchVars, bot_difficulty, game, gamesMade,
                   confirm_open, running, loop, settingsData, nAdjust,
                   selected_items, nSelects>>

\* ModeSelectScene._select(target)
ModeSelect(target) ==
    /\ Handles("mode_select")
    /\ IF target = None THEN UNCHANGED managerVars ELSE Goes(target)
    /\ UNCHANGED <<settingsVars, busVars, paddleVars, matchVars, appVars>>

\* PlayMenuScene._select(value)
PlayMenuSelect(value) ==
    /\ Handles("play_menu")
    /\ IF value = "title"
       THEN /\ Goes("mode_select")
            /\ UNCHANGED <<bot_difficulty, game, gamesMade, listeners>>
       ELSE /\ game = NoGame => gamesMade < MaxGames
            /\ bot_difficulty' = value
            /\ Goes("play")
            /\ PlaySceneOnEnter(set_scene(Manager, "play"))
    /\ UNCHANGED <<settingsVars, subLog, busCall, paddleVars, matchVars, return_scene,
                   confirm_open, quitPosted, running, loop, settingsData, nAdjust,
                   selected_items, loadout_trail, nSelects>>

\* PlayScene.handle_event: Escape or P
PlayKeyPause ==
    /\ Handles("play")
    /\ Goes("pause")
    /\ UNCHANGED <<settingsVars, busVars, paddleVars, matchVars, appVars>>

\* PauseScene.handle_event, Escape or P, and the Resume button
PauseResume ==
    /\ Handles("pause")
    /\ bot_difficulty' = bot_difficulty
    /\ Goes("play")
    /\ PlaySceneOnEnter(set_scene(Manager, "play"))
    /\ UNCHANGED <<settingsVars, subLog, busCall, paddleVars, matchVars, return_scene,
                   confirm_open, quitPosted, running, loop, settingsData, nAdjust,
                   selected_items, loadout_trail, nSelects>>

\* PauseScene._open_settings
PauseOpenSettings ==
    /\ Handles("pause")
    /\ return_scene' = "pause"
    /\ Goes("settings")
    /\ UNCHANGED <<settingsVars, busVars, paddleVars, matchVars, bot_difficulty, game, gamesMade,
                   confirm_open, quitPosted, running, loop, settingsData, nAdjust,
                   selected_items, loadout_trail, nSelects>>

\* _quit_to_title that leaves the PongGame with the play scene
PauseQuitToTitle_KeepsGame ==
    /\ Handles("pause")
    /\ Goes("title")
    /\ UNCHANGED <<settingsVars, busVars, paddleVars, matchVars, appVars>>

\* PauseScene._quit_to_title
PauseQuitToTitle ==
    /\ Handles("pause")
    /\ game' = NoGame
    /\ Goes("title")
    /\ UNCHANGED <<settingsVars, busVars, paddleVars, matchVars, return_scene, bot_difficulty,
                   gamesMade, confirm_open, quitPosted, running, loop, settingsData,
                   nAdjust, selected_items, loadout_trail, nSelects>>

\* SettingsScene.handle_event: one of the six adjustment keys
SettingsAdjust(field, step) ==
    /\ Handles("settings")
    /\ nAdjust < MaxAdjust
    /\ nAdjust' = nAdjust + 1
    /\ settingsData' = [settingsData EXCEPT ![field] = Max(0, Min(10, @ + step))]
    /\ UNCHANGED <<settingsVars, busVars, managerVars, paddleVars, matchVars, return_scene,
                   bot_difficulty, game, gamesMade, confirm_open, quitPosted,
                   running, loop, selected_items, loadout_trail, nSelects>>

\* SettingsScene._apply
SettingsApply ==
    /\ Handles("settings")
    /\ LET r == PublishSettingsChangeRequested(settings, listeners, "audio",
                    <<<<"master_volume", settingsData.master_volume>>,
                      <<"sfx_volume", settingsData.sfx_volume>>,
                      <<"screen_shake", settingsData.screen_shake>>>>)
       IN /\ settings' = r.store
          /\ listeners' = r.listeners
          /\ busCall' = [op |-> "publish", kind |-> "SettingsChangeRequested",
                         invoked |-> r.invoked]
          /\ IF r.error = None THEN Goes(return_scene) ELSE UNCHANGED managerVars
          /\ loop' = IF r.error = None THEN loop ELSE "crashed"
    /\ UNCHANGED <<patchCall, nPatches, subLog, paddleVars, matchVars, return_scene,
                   bot_difficulty, game, gamesMade, confirm_open, quitPosted, running,
                   settingsData, nAdjust, selected_items, loadout_trail, nSelects>>

\* SettingsScene._back that always returns to the title scene
SettingsBack_ToTitle ==
    /\ Handles("settings")
    /\ Goes("title")
    /\ UNCHANGED <<settingsVars, busVars, paddleVars, matchVars, appVars>>

\* SettingsScene._back
SettingsBack ==
    /\ Handles("settings")
    /\ Goes(return_scene)
    /\ UNCHANGED <<settingsVars, busVars, paddleVars, matchVars, appVars>>

\* InventoryScene._select_item_by_id on an unlocked item of a category
InventorySelect(cat) ==
    /\ Handles("inventory")
    /\ nSelects < MaxSelects
    /\ nSelects' = nSelects + 1
    /\ selected_items' = selected_items \cup {cat}
    /\ loadout_trail' = (loadout_trail \/ cat = "trail")
    /\ UNCHANGED <<settingsVars, busVars, managerVars, paddleVars, matchVars, return_scene,
                   bot_difficulty, game, gamesMade, confirm_open, quitPosted,
                   running, loop, settingsData, nAdjust>>

\* The sprites dictionary InventoryScene._apply builds.
SpriteValues ==
    SelectSeq(<<<<"paddle_image", "paddle">>, <<"ball_image", "ball">>,
                <<"background_image", "background">>>>,
              LAMBDA kv : kv[2] \in selected_items)

\* InventoryScene._apply
InventoryApply ==
    /\ Handles("inventory")
    /\ LET sprites == [i \in 1..Len(SpriteValues) |-> <<SpriteValues[i][1], SpritePath>>]
           none == [store |-> settings, listeners |-> listeners, invoked |-> <<>>,
                    error |-> None]
           r1 == IF loadout_trail
                 THEN PublishSettingsChangeRequested(settings, listeners, "trail",
                                                     <<<<"effect", TrailId>>>>)
                 ELSE none
           r2 == IF sprites # <<>> /\ r1.error = None
                 THEN PublishSettingsChangeRequested(r1.store, r1.listeners, "sprites",
                                                     sprites)
                 ELSE r1
       IN /\ settings' = r2.store
          /\ listeners' = r2.listeners
          /\ busCall' = IF loadout_trail \/ sprites # <<>>
                        THEN [op |-> "publish", kind |-> "SettingsChangeRequested",
                              invoked |-> IF sprites # <<>> /\ r1.error = None
                                          THEN r2.invoked ELSE r1.invoked]
                        ELSE busCall
          /\ IF r2.error = None THEN Goes("title") ELSE UNCHANGED managerVars
          /\ loop' = IF r2.error = None THEN loop ELSE "crashed"
    /\ UNCHANGED <<patchCall, nPatches, subLog, paddleVars, matchVars, return_scene,
                   bot_difficulty, game, gamesMade, confirm_open, quitPosted, running,
                   settingsData, nAdjust, selected_items, loadout_trail, nSelects>>

\* A "Zurück" button that enters the inventory scene again
InventoryBack_Stays ==
    /\ Handles("inventory")
    /\ Goes("inventory")
    /\ UNCHANGED <<settingsVars, busVars, paddleVars, matchVars, appVars>>

\* The "Zurück" button of the inventory scene
InventoryBack ==
    /\ Handles("inventory")
    /\ Goes("title")
    /\ UNCHANGED <<settingsVars, busVars, paddleVars, matchVars, appVars>>

\* ShopScene._buy_current with an item on display: the confirm box opens
ShopBuyCurrent ==
    /\ Handles("shop")
    /\ ~confirm_open
    /\ confirm_open' = TRUE
    /\ UNCHANGED <<settingsVars, busVars, managerVars, paddleVars, matchVars, return_scene,
                   bot_difficulty, game, gamesMade, quitPosted, running, loop,
                   settingsData, nAdjust, selected_items, loadout_trail, nSelects>>

\* The confirm box: "Kaufen" on an affordable locked item (_buy) or
\* "Abbrechen" (_cancel_confirm) closes it
ShopCloseConfirm ==
    /\ Handles("shop")
    /\ confirm_open
    /\ confirm_open' = FALSE
    /\ UNCHANGED <<settingsVars, busVars, managerVars, paddleVars, matchVars, return_scene,
                   bot_difficulty, game, gamesMade, quitPosted, running, loop,
                   settingsData, nAdjust, selected_items, loadout_trail, nSelects>>

\* The "Zurück" button of the shop, handled only while no confirm box is open
ShopBack ==
    /\ Handles("shop")
    /\ ~confirm_open
    /\ Goes("title")
    /\ UNCHANGED <<settingsVars, busVars, paddleVars, matchVars, appVars>>

\* GameApp.run: the posted QUIT event is taken from the queue
ConsumeQuit ==
    /\ loop = "frames"
    /\ quitPosted
    /\ running
    /\ running' = FALSE
    /\ UNCHANGED <<settingsVars, busVars, managerVars, paddleVars, matchVars, return_scene,
                   bot_difficulty, game, gamesMade, confirm_open, quitPosted, loop,
                   settingsData, nAdjust, selected_items, loadout_trail, nSelects>>

\* A run loop that sets running again after the frame that consumed QUIT
LoopExit_KeepsLooping ==
    /\ loop = "frames"
    /\ ~running
    /\ running' = TRUE
    /\ UNCHANGED <<settingsVars, busVars, managerVars, paddleVars, matchVars, return_scene,
                   bot_difficulty, game, gamesMade, confirm_open, quitPosted, loop,
                   settingsData, nAdjust, selected_items, loadout_trail, nSelects>>

\* GameApp.run: the while test fails after the frame and pygame.quit() runs
LoopExit ==
    /\ loop = "frames"
    /\ ~running
    /\ loop' = "quit"
    /\ UNCHANGED <<settingsVars, busVars, managerVars, paddleVars, matchVars, return_scene,
                   bot_difficulty, game, gamesMade, confirm_open, quitPosted, running,
                   settingsData, nAdjust, selected_items, loadout_trail, nSelects>>

\* GameApp.__init__: the manager after the registrations and
\* set_scene("title")
Started ==
    set_scene([current |-> None, history |-> <<>>, hooks |-> <<>>,
               entered |-> [s \in scenes |-> FALSE], reentered |-> FALSE,
               error |-> None], "title")

Init ==
    /\ InitSettings
    /\ InitBusIdle
    /\ current = Started.current
    /\ history = Started.history
    /\ hooks = Started.hooks
    /\ entered = Started.entered
    /\ reentered = Started.reentered
    /\ sceneCall = [op |-> "startup", name |-> "title", error |-> Started.error,
                    before |-> [current |-> None, history |-> <<>>]]
    /\ return_scene = "title"
    /\ bot_difficulty = "easy"
    /\ game = NoGame
    /\ gamesMade = 0
    /\ confirm_open = FALSE
    /\ quitPosted = FALSE
    /\ running = TRUE
    /\ loop = "frames"
    /\ settingsData = [master_volume |-> 10, sfx_volume |-> 10, screen_shake |-> 5]
    /\ nAdjust = 0
    /\ selected_items = {}
    /\ loadout_trail \in BOOLEAN
    /\ nSelects = 0
    /\ InitPaddleIdle
    /\ InitMatchIdle

\* One event handled by the current scene, or one step of the run loop
UiEvent ==
    \/ \E label \in {"Play", "Inventory", "Shop", "Settings", "Exit"} : TitleRoute(label)
    \/ \E target \in {"play_menu", None, "title"} : ModeSelect(target)
    \/ \E value \in Difficulties \cup {"title"} : PlayMenuSelect(value)
    \/ PlayKeyPause
    \/ PauseResume
    \/ PauseOpenSettings
    \/ PauseQuitToTitle
    \/ \E field \in {"master_volume", "sfx_volume", "screen_shake"} :
           \E step \in {-1, 1} : SettingsAdjust(field, step)
    \/ SettingsApply
    \/ SettingsBack
    \/ \E cat \in {"paddle", "ball", "background", "trail", "animation"} :
           InventorySelect(cat)
    \/ InventoryApply
    \/ InventoryBack
    \/ ShopBuyCurrent
    \/ ShopCloseConfirm
    \/ ShopBack
    \/ ConsumeQuit
    \/ LoopExit

Next == Len(history) < MaxAppHistory /\ UiEvent

Spec == Init /\ [][Next]_vars

(***************************************************************************)
(* Claims about the application's scene changes                            *)
(***************************************************************************)
\* C6 as stated: after set_scene("pause") from "play" the history holds
\* "play", and the resume set_scene("play") pushes nothing, so pause/resume
\* cycles do not grow the history.
C6_ResumeDoesNotPush ==
    /\ (sceneCall.op = "set_scene" /\ sceneCall.name = "pause"
            /\ Before.current = "play")
           => "play" \in Range(history)
    /\ (sceneCall.op = "set_scene" /\ sceneCall.name = "play"
            /\ Before.current = "pause")
           => history = Before.history

\* C6 as amended: set_scene("pause") from "play" pushes "play", and the
\* resume set_scene("play") from "pause" pushes "pause", so every
\* pause/resume cycle adds two names to the history.
C6_ResumePushesPause ==
    /\ (sceneCall.op = "set_scene" /\ sceneCall.name = "pause"
            /\ Before.current = "play")
           => history = Append(Before.history, "play")
    /\ (sceneCall.op = "set_scene" /\ sceneCall.name = "play"
            /\ Before.current = "pause")
           => history = Append(Before.history, "pause")

\* A second pause after a resume: the history ends play, pause, play.
C6_Witness ==
    /\ sceneCall.op = "set_scene"
    /\ sceneCall.name = "pause"
    /\ current = "pause"
    /\ Len(history) >= 3
    /\ SubSeq(history, Len(history) - 2, Len(history)) = <<"play", "pause", "play">>

\* C9: after start-up the current scene is "title", and after any sequence
\* of UI-triggered transitions exactly one scene is current (the one that
\* was entered and not left) and it is one of the eight registered names.
C9_OneCurrentScene ==
    /\ sceneCall.op = "startup" => current = "title"
    /\ current \in scenes
    /\ {s \in scenes : entered[s]} = {current}
    /\ ~reentered

\* The settings scene opened from the pause menu of a running match.
C9_Witness ==
    /\ current = "settings"
    /\ return_scene = "pause"
    /\ game # NoGame
    /\ history = <<"title", "mode_select", "play_menu", "play", "pause">>

(***************************************************************************)
(* Paddle                                                                  *)
(*                                                                         *)
(* Positions are kept in units of 1/PosScale pixel, speed multipliers in   *)
(* hundredths and dt in milliseconds, so that y += direction * speed *     *)
(* speed_multiplier * dt is exact.                                         *)
(***************************************************************************)
MultScale == 100
MsPerSecond == 1000
PosScale == MultScale * MsPerSecond

\* Inputs explored: frame times in ms, the multipliers the game assigns
\* (bot factors and the speed boost), display and paddle heights, and
\* starting positions in pixels, inside and outside the display.
DtValues == {0, 16, 30000}
Multipliers == {70, 100, 160}
DisplayHeights == {540, 250}
PaddleHeights == {110, 250, 600}
StartYs == {-5, 0, 215, 430, 1000}

\* Paddle.update that clamps to the display height, not to the room left
\* under the paddle
PaddleUpdate_ClampDisplay(p, st, dt, up, down) ==
    LET direction == (IF up THEN -1 ELSE 0) + (IF down THEN 1 ELSE 0)
        moved == p.y + direction * st.paddle.speed * p.speed_multiplier * dt
    IN [p EXCEPT !.y = Max(0, Min(st.display.height * PosScale, moved))]

\* Paddle.update(dt, keys) with keys[up_key] = up and keys[down_key] = down
PaddleUpdate(p, st, dt, up, down) ==
    LET direction == (IF up THEN -1 ELSE 0) + (IF down THEN 1 ELSE 0)
        moved == p.y + direction * st.paddle.speed * p.speed_multiplier * dt
    IN [p EXCEPT !.y = Max(0, Min((st.display.height - st.paddle.height) * PosScale,
                                  moved))]

UpdatePaddle(dt, up, down) ==
    /\ paddle' = PaddleUpdate(paddle, settings, dt, up, down)
    /\ paddleCall' = [op |-> "update", dt |-> dt, up |-> up, down |-> down,
                      before |-> paddle.y]
    /\ UNCHANGED <<settingsVars, busVars, managerVars, appVars, matchVars>>

InitPaddleSpec ==
    /\ \E dh \in DisplayHeights : \E ph \in PaddleHeights :
           settings = [RuntimeSettings EXCEPT !.display.height = dh,
                                              !.paddle.height = ph]
    /\ patchCall = NoPatchCall
    /\ nPatches = 0
    /\ InitBusIdle
    /\ InitManagerIdle
    /\ InitAppIdle
    /\ \E y \in StartYs : \E mult \in Multipliers :
           paddle = [y |-> y * PosScale, speed_multiplier |-> mult]
    /\ paddleCall = [op |-> None, dt |-> 0, up |-> FALSE, down |-> FALSE, before |-> 0]
    /\ InitMatchIdle

NextPaddle ==
    \E dt \in DtValues : \E up \in BOOLEAN : \E down \in BOOLEAN :
        UpdatePaddle(dt, up, down)

SpecPaddle == InitPaddleSpec /\ [][NextPaddle]_vars

\* The largest y of a paddle that lies inside the display.
MaxPaddleY == (settings.display.height - settings.paddle.height) * PosScale

\* C10: after every Paddle.update, whatever the starting y, the keys, the
\* speed multiplier and dt, 0 <= y <= display.height - paddle.height,
\* provided paddle.height <= display.height.
C10_PaddleClamp ==
    (paddleCall.op = "update" /\ settings.paddle.height <= settings.display.height)
        => (0 <= paddle.y /\ paddle.y <= MaxPaddleY)

\* A 30 s frame with only the down key pressed took a paddle from inside
\* the display onto the lower bound.
C10_Witness ==
    /\ paddleCall.op = "update"
    /\ paddleCall.dt = 30000
    /\ paddleCall.down /\ ~paddleCall.up
    /\ settings.paddle.height < settings.display.height
    /\ 0 <= paddleCall.before /\ paddleCall.before < MaxPaddleY
    /\ paddle.y = MaxPaddleY


(***************************************************************************)
(* Ball                                                                    *)
(*                                                                         *)
(* Ball positions use the paddle's unit of 1/PosScale pixel.  Velocities   *)
(* are kept in 1/VelScale pixel per second, rounded toward zero, so one    *)
(* millisecond moves a ball by velocity * VelStep position units.  Angles  *)
(* are whole degrees, rounded toward zero, and math.cos / math.sin are     *)
(* read from a table of cosines in 1/TrigScale.                            *)
(***************************************************************************)
VelScale == 10
VelStep == PosScale \div (VelScale * MsPerSecond)
TrigScale == 10000

\* int(a / b) for b > 0: the quotient rounded toward zero
Trunc(a, b) == IF a >= 0 THEN a \div b ELSE -((-a) \div b)

Abs(a) == IF a < 0 THEN -a ELSE a

\* round(TrigScale * cos(d degrees)) for d = 0..90, at index d + 1
CosTable ==
    <<
      10000, 9998, 9994, 9986, 9976, 9962, 9945, 9925, 9903, 9877,
      9848, 9816, 9781, 9744, 9703, 9659, 9613, 9563, 9511, 9455,
      9397, 9336, 9272, 9205, 9135, 9063, 8988, 8910, 8829, 8746,
      8660, 8572, 8480, 8387, 8290, 8192, 8090, 7986, 7880, 7771,
      7660, 7547, 7431, 7314, 7193, 7071, 6947, 6820, 6691, 6561,
      6428, 6293, 6157, 6018, 5878, 5736, 5592, 5446, 5299, 5150,
      5000, 4848, 4695, 4540, 4384, 4226, 4067, 3907, 3746, 3584,
      3420, 3256, 3090, 2924, 2756, 2588, 2419, 2250, 2079, 1908,
      1736, 1564, 1392, 1219, 1045, 872, 698, 523, 349, 175,
      0
    >>

\* math.cos and math.sin of an angle in whole degrees, -90..90
Cos(deg) == CosTable[Abs(deg) + 1]
Sin(deg) == IF deg >= 0 THEN CosTable[90 - deg + 1] ELSE -CosTable[90 + deg + 1]

\* The largest r in lo..hi with r * r <= n
RECURSIVE IsqrtIn(_, _, _)
IsqrtIn(n, lo, hi) ==
    IF lo >= hi THEN lo
    ELSE LET mid == (lo + hi + 1) \div 2
         IN IF mid * mid <= n THEN IsqrtIn(n, mid, hi) ELSE IsqrtIn(n, lo, mid - 1)

\* math.hypot(vx, vy), rounded down
Hypot(vx, vy) == IsqrtIn(vx * vx + vy * vy, 0, Abs(vx) + Abs(vy))

\* Ball.update(dt), dt in ms
BallUpdate(b, dt) ==
    [b EXCEPT !.x = @ + b.velocity_x * dt * VelStep,
              !.y = @ + b.velocity_y * dt * VelStep]

\* Ball.bounce_vertical
bounce_vertical(b) == [b EXCEPT !.velocity_y = -@]

\* The bounce angle in degrees for a ball hitting paddle p:
\* max_bounce_angle_deg * max(-1, min(1, relative_intersect / (height / 2)))
BounceAngle(b, p, st) ==
    LET center_ball == b.y + (st.ball.size * PosScale) \div 2
        center_paddle == p.y + (st.paddle.height * PosScale) \div 2
        relative_intersect == Trunc(center_ball - center_paddle, MsPerSecond)
        half == (st.paddle.height * PosScale) \div (2 * MsPerSecond)
    IN IF relative_intersect >= half THEN st.ball.max_bounce_angle_deg
       ELSE IF relative_intersect <= -half THEN -st.ball.max_bounce_angle_deg
       ELSE Trunc(st.ball.max_bounce_angle_deg * relative_intersect, half)

\* bounce_from_paddle that takes the incoming horizontal speed, not the
\* length of the velocity, as the speed of the ball
bounce_from_paddle_SpeedX(b, p, st) ==
    LET bounce_angle == BounceAngle(b, p, st)
        speed == Abs(b.velocity_x)
        new_speed_x == Abs(Trunc(speed * Cos(bounce_angle), TrigScale))
        new_speed_y == Trunc(speed * Sin(bounce_angle), TrigScale)
        vx == IF b.velocity_x < 0 THEN new_speed_x ELSE -new_speed_x
    IN [b EXCEPT !.velocity_x = vx,
                 !.velocity_y = new_speed_y,
                 !.x = IF vx > 0 THEN (p.x + st.paddle.width) * PosScale
                       ELSE (p.x - st.ball.size) * PosScale]

\* bounce_from_paddle that leaves the ball where it met the paddle
bounce_from_paddle_NoSnap(b, p, st) ==
    LET bounce_angle == BounceAngle(b, p, st)
        speed == Hypot(b.velocity_x, b.velocity_y)
        new_speed_x == Abs(Trunc(speed * Cos(bounce_angle), TrigScale))
        new_speed_y == Trunc(speed * Sin(bounce_angle), TrigScale)
        vx == IF b.velocity_x < 0 THEN new_speed_x ELSE -new_speed_x
    IN [b EXCEPT !.velocity_x = vx, !.velocity_y = new_speed_y]

\* Ball.bounce_from_paddle(paddle)
bounce_from_paddle(b, p, st) ==
    LET bounce_angle == BounceAngle(b, p, st)
        speed == Hypot(b.velocity_x, b.velocity_y)
        new_speed_x == Abs(Trunc(speed * Cos(bounce_angle), TrigScale))
        new_speed_y == Trunc(speed * Sin(bounce_angle), TrigScale)
        vx == IF b.velocity_x < 0 THEN new_speed_x ELSE -new_speed_x
    IN [b EXCEPT !.velocity_x = vx,
                 !.velocity_y = new_speed_y,
                 !.x = IF vx > 0 THEN (p.x + st.paddle.width) * PosScale
                       ELSE (p.x - st.ball.size) * PosScale]

\* pygame.Rect(int(x), int(y), w, h) of a ball and of a paddle, in pixels
BallRect(b, st) ==
    [x |-> Trunc(b.x, PosScale), y |-> Trunc(b.y, PosScale),
     w |-> st.ball.size, h |-> st.ball.size]

PaddleRect(p, st) ==
    [x |-> p.x, y |-> Trunc(p.y, PosScale),
     w |-> st.paddle.width, h |-> st.paddle.height]

\* pygame.Rect.colliderect: the rectangles overlap; touching edges and
\* empty rectangles do not collide
colliderect(a, b) ==
    /\ a.w > 0 /\ a.h > 0 /\ b.w > 0 /\ b.h > 0
    /\ a.x < b.x + b.w /\ b.x < a.x + a.w
    /\ a.y < b.y + b.h /\ b.y < a.y + a.h

(***************************************************************************)
(* Match session: PongGame                                                 *)
(*                                                                         *)
(* A PongGame is the record g: left and right paddles (x in pixels, y in   *)
(* position units, speed_multiplier in hundredths), score, balls (a list   *)
(* of records whose ball_id is the number n of "ball-n"), _ball_seq, the   *)
(* chaos system's elapsed time and the speed boost timers in ms, and the   *)
(* size of the rendering surface.  Rendering state (trails, particles,     *)
(* rotation, _time) is left out.                                           *)
(*                                                                         *)
(* Operations thread a world w through the calls they make: the settings   *)
(* store, the bus listeners, g, the trace of events published and of       *)
(* _reset_round calls, the error an exception carries while it             *)
(* propagates (None when there is none), the outcomes of random.choice     *)
(* still to be drawn, the ball numbers assigned, the live balls at the     *)
(* start and at the end of the resolver pass, and whether the chaos        *)
(* system fired.                                                           *)
(***************************************************************************)
MaxFrames == 3        \* PongGame.update calls per behaviour
MaxRequests == 1      \* events published from outside the PongGame

BoostDuration == 1200   \* SpeedBoostPowerup.boost_duration, ms
BoostFactor == 160      \* SpeedBoostPowerup.boost_factor, hundredths
ChaosInterval == 7000   \* ChaosSystem.interval, ms
AiMargin == 6           \* the dead zone of _ai_keys, pixels

\* The speed factor _ai_keys gives the right paddle, in hundredths
AiFactor(bot_mode) ==
    CASE bot_mode = "easy" -> 70
      [] bot_mode = "medium" -> 100
      [] bot_mode = "hard" -> 115
      [] bot_mode = "ai" -> 125
      [] OTHER -> 100

NoKeys == [w |-> FALSE, s |-> FALSE, up |-> FALSE, down |-> FALSE,
           space |-> FALSE, r |-> FALSE]

\* An event object: its class, and its fields.  s is paddle_id, scorer_id
\* or section; n is the ball number or count; speed and size are -1 for
\* None.
Event(kind, s, n, values) ==
    [kind |-> kind, s |-> s, n |-> n, values |-> values, speed |-> -1, size |-> -1]

\* Every item of values is what the store holds in that section.
Holds(st, section, values) ==
    \A i \in 1..Len(values) :
        /\ section \in Sections
        /\ values[i][1] \in DOMAIN st[section]
        /\ st[section][values[i][1]] = values[i][2]

\* A trace entry: the event published, or a call of _reset_round (kind
\* "_reset_round", s the caller), with what was true at that moment.
Entry(w, ev) ==
    [kind |-> ev.kind, s |-> ev.s, n |-> ev.n, values |-> ev.values,
     held |-> Holds(w.store, ev.s, ev.values),
     screen |-> w.g.screen,
     display |-> [width |-> w.store.display.width, height |-> w.store.display.height],
     nballs |-> Len(w.g.balls),
     score |-> w.g.score]

World(st, ls, g, dirs, rnd) ==
    [store |-> st, ls |-> ls, g |-> g, log |-> <<>>, err |-> None,
     dirs |-> dirs, rnd |-> rnd, assigned |-> <<>>, unresolved |-> <<>>,
     resolved |-> <<>>, fired |-> FALSE, ai |-> None]

RECURSIVE BusPublish(_, _)

\* PongGame._apply_display_settings: the surface takes the display size
apply_display_settings(w) ==
    [w EXCEPT !.g.screen = [width |-> w.store.display.width,
                            height |-> w.store.display.height]]

\* _on_settings_change_requested that publishes SettingsChanged with the
\* requested values before it patches the store
on_settings_change_requested_PublishFirst(w, ev) ==
    LET w1 == BusPublish(w, Event("SettingsChanged", ev.s, 0, ev.values))
        r == patch(w1.store, ev.s, ev.values)
    IN IF r.outcome # "ok"
       THEN [w1 EXCEPT !.store = r.store, !.err = r.outcome]
       ELSE IF ev.s = "display"
       THEN apply_display_settings([w1 EXCEPT !.store = r.store])
       ELSE [w1 EXCEPT !.store = r.store]

\* PongGame._on_settings_change_requested(event)
on_settings_change_requested(w, ev) ==
    LET r == patch(w.store, ev.s, ev.values)
        w1 == [w EXCEPT !.store = r.store]
        w2 == IF ev.s = "display" THEN apply_display_settings(w1) ELSE w1
    IN IF r.outcome # "ok"
       THEN [w1 EXCEPT !.err = r.outcome]
       ELSE BusPublish(w2, Event("SettingsChanged", ev.s, 0, r.applied))

\* _spawn_balls that numbers every ball with the current _ball_seq
\* without advancing it
SpawnOne_NoIncrement(w, speed, size) ==
    LET direction == IF w.dirs = <<>> THEN 1 ELSE Head(w.dirs)
        use_speed == IF speed # -1 THEN speed ELSE w.store.ball.speed
        use_size == IF size # -1 THEN size ELSE w.store.ball.size
        b == [ball_id |-> w.g.ball_seq,
              x |-> ((w.store.display.width - use_size) * PosScale) \div 2,
              y |-> ((w.store.display.height - use_size) * PosScale) \div 2,
              velocity_x |-> use_speed * VelScale * direction,
              velocity_y |-> Trunc(use_speed * VelScale * 33, 100) * direction]
        w1 == [w EXCEPT !.g.balls = Append(@, b),
                        !.dirs = IF @ = <<>> THEN @ ELSE Tail(@),
                        !.assigned = Append(@, w.g.ball_seq)]
    IN BusPublish(w1, Event("BallSpawned", "", b.ball_id, <<>>))

\* One pass of the loop of _spawn_balls: the next number, a random
\* direction, the ball centred on the display, BallSpawned.
SpawnOne(w, speed, size) ==
    LET seq == w.g.ball_seq + 1
        direction == IF w.dirs = <<>> THEN 1 ELSE Head(w.dirs)
        use_speed == IF speed # -1 THEN speed ELSE w.store.ball.speed
        use_size == IF size # -1 THEN size ELSE w.store.ball.size
        b == [ball_id |-> seq,
              x |-> ((w.store.display.width - use_size) * PosScale) \div 2,
              y |-> ((w.store.display.height - use_size) * PosScale) \div 2,
              velocity_x |-> use_speed * VelScale * direction,
              velocity_y |-> Trunc(use_speed * VelScale * 33, 100) * direction]
        w1 == [w EXCEPT !.g.ball_seq = seq,
                        !.g.balls = Append(@, b),
                        !.dirs = IF @ = <<>> THEN @ ELSE Tail(@),
                        !.assigned = Append(@, seq)]
    IN BusPublish(w1, Event("BallSpawned", "", b.ball_id, <<>>))

\* PongGame._spawn_balls(count, speed, size)
RECURSIVE spawn_balls(_, _, _, _)
spawn_balls(w, count, speed, size) ==
    IF count <= 0 \/ w.err # None THEN w
    ELSE spawn_balls(SpawnOne(w, speed, size), count - 1, speed, size)

\* PongGame._on_spawn_request(event)
on_spawn_request(w, ev) == spawn_balls(w, ev.n, ev.speed, ev.size)

\* PongGame._on_point_scored(event)
on_point_scored(w, ev) == [w EXCEPT !.g.score[ev.s] = @ + 1]

\* SpeedBoostPowerup._on_hit(event)
speed_boost_on_hit(w, ev) == [w EXCEPT !.g.timers[ev.s] = BoostDuration]

\* SpeedBoostPowerup._on_point_scored(event)
speed_boost_on_point_scored(w, ev) ==
    [w EXCEPT !.g.left.speed_multiplier = 100,
              !.g.right.speed_multiplier = 100,
              !.g.timers = [left |-> 0, right |-> 0]]

\* The call listener(event) for a listener PongGame.__init__ subscribed.
\* SkinManager._on_settings_changed reloads surfaces, which are not part
\* of g.
CallListener(w, listener, ev) ==
    CASE listener.handler = "_on_point_scored" -> on_point_scored(w, ev)
      [] listener.handler = "_on_settings_change_requested" ->
             on_settings_change_requested(w, ev)
      [] listener.handler = "_on_spawn_request" -> on_spawn_request(w, ev)
      [] listener.handler = "speed_boost._on_hit" -> speed_boost_on_hit(w, ev)
      [] listener.handler = "speed_boost._on_point_scored" ->
             speed_boost_on_point_scored(w, ev)
      [] OTHER -> w

\* The for loop of EventBus.publish from listener i on; an exception ends
\* it.
RECURSIVE Deliver(_, _, _, _)
Deliver(w, list, i, ev) ==
    IF i > Len(list) \/ w.err # None THEN w
    ELSE Deliver(CallListener(w, list[i], ev), list, i + 1, ev)

\* EventBus.publish(event) inside the PongGame's world
BusPublish(w, ev) ==
    IF w.err # None THEN w
    ELSE LET ls == Touch(w.ls, ev.kind)
         IN Deliver([w EXCEPT !.ls = ls, !.log = Append(@, Entry(w, ev))],
                    ls[ev.kind], 1, ev)

\* self.balls.remove(ball): the list without its first ball equal to b
RECURSIVE ListRemove(_, _)
ListRemove(list, b) ==
    IF list = <<>> THEN <<>>
    ELSE IF Head(list) = b THEN Tail(list)
    ELSE <<Head(list)>> \o ListRemove(Tail(list), b)

\* PongGame._remove_ball(ball)
remove_ball(w, b) ==
    IF b \in Range(w.g.balls)
    THEN BusPublish([w EXCEPT !.g.balls = ListRemove(@, b)],
                    Event("BallRemoved", "", b.ball_id, <<>>))
    ELSE w

\* (display.height - paddle.height) / 2 in position units
CentreY(st) == ((st.display.height - st.paddle.height) * PosScale) \div 2

\* _reset_round that spawns one ball whatever ball.count_on_reset says
reset_round_OneBall(w, caller) ==
    LET w0 == [w EXCEPT !.log = Append(@, Entry(w, Event("_reset_round", caller, 0, <<>>)))]
        w1 == [w0 EXCEPT !.g.left.y = CentreY(w.store),
                         !.g.right.y = CentreY(w.store),
                         !.g.balls = <<>>]
        w2 == spawn_balls(w1, 1, -1, -1)
    IN BusPublish(w2, Event("RoundReset", "", 0, <<>>))

\* PongGame._reset_round(); caller names who called it
reset_round(w, caller) ==
    LET w0 == [w EXCEPT !.log = Append(@, Entry(w, Event("_reset_round", caller, 0, <<>>)))]
        w1 == [w0 EXCEPT !.g.left.y = CentreY(w.store),
                         !.g.right.y = CentreY(w.store),
                         !.g.balls = <<>>]
        w2 == spawn_balls(w1, w.store.ball.count_on_reset, -1, -1)
    IN BusPublish(w2, Event("RoundReset", "", 0, <<>>))

\* _restart that resets the round and keeps the scores
restart_KeepScore(w) == reset_round(w, "restart")

\* PongGame._restart()
restart(w) ==
    reset_round([w EXCEPT !.g.score = [left |-> 0, right |-> 0]], "restart")

\* The ball object numbered id in self.balls
BallOf(w, id) == CHOOSE b \in Range(w.g.balls) : b.ball_id = id

\* An in-place change of the ball object numbered b.ball_id
SetBall(w, b) ==
    [w EXCEPT !.g.balls = [i \in 1..Len(@) |->
                              IF @[i].ball_id = b.ball_id THEN b ELSE @[i]]]

\* The wall part of the loop body that reflects a ball at a bound whichever
\* way it moves
WallBounce_AnyDirection(b, st) ==
    IF b.y <= 0
    THEN bounce_vertical([b EXCEPT !.y = 0])
    ELSE IF b.y + st.ball.size * PosScale >= st.display.height * PosScale
    THEN bounce_vertical([b EXCEPT !.y = (st.display.height - st.ball.size) * PosScale])
    ELSE b

\* The top / bottom part of the resolver for one ball
WallBounce(b, st) ==
    IF b.y <= 0 /\ b.velocity_y < 0
    THEN bounce_vertical([b EXCEPT !.y = 0])
    ELSE IF b.y + st.ball.size * PosScale >= st.display.height * PosScale
            /\ b.velocity_y > 0
    THEN bounce_vertical([b EXCEPT !.y = (st.display.height - st.ball.size) * PosScale])
    ELSE b

\* The paddle part of the resolver for one ball and one paddle; the
\* bounce_from_paddle call is traced with the horizontal velocity it left
\* and, as values, the ball's number and the x it put the ball at.
HitPaddle(w, id, side) ==
    LET b == BallOf(w, id)
        p == w.g[side]
        Bounced(w1, bounced) ==
            [w1 EXCEPT !.log = Append(@,
                Entry(w1, Event("bounce_from_paddle", side, bounced.velocity_x,
                                <<<<"ball_id", id>>, <<"x", bounced.x>>>>)))]
        Hit(bounced) ==
            BusPublish(Bounced(SetBall(w, bounced), bounced),
                       Event("BallHitPaddle", side, 0, <<>>))
    IN IF w.err = None /\ colliderect(BallRect(b, w.store), PaddleRect(p, w.store))
       THEN Hit(bounce_from_paddle(b, p, w.store))
       ELSE w

\* The resolver's loop body that removes a ball that left before it
\* publishes the point
ResolveBall_RemoveFirst(w, id) ==
    LET ball_size == w.store.ball.size
        Exits(w2, b) ==
            IF b.x < -(ball_size * PosScale)
            THEN BusPublish(remove_ball(w2, b), Event("PointScored", "right", 0, <<>>))
            ELSE IF b.x > (w2.store.display.width + ball_size) * PosScale
            THEN BusPublish(remove_ball(w2, b), Event("PointScored", "left", 0, <<>>))
            ELSE w2
        Leaves(w2) == IF w2.err # None THEN w2 ELSE Exits(w2, BallOf(w2, id))
    IN Leaves(HitPaddle(HitPaddle(SetBall(w, WallBounce(BallOf(w, id), w.store)),
                                  id, "left"),
                        id, "right"))

\* The body of the resolver's loop for the ball numbered id
ResolveBall(w, id) ==
    LET ball_size == w.store.ball.size
        Exits(w2, b) ==
            IF b.x < -(ball_size * PosScale)
            THEN remove_ball(BusPublish(w2, Event("PointScored", "right", 0, <<>>)), b)
            ELSE IF b.x > (w2.store.display.width + ball_size) * PosScale
            THEN remove_ball(BusPublish(w2, Event("PointScored", "left", 0, <<>>)), b)
            ELSE w2
        Leaves(w2) == IF w2.err # None THEN w2 ELSE Exits(w2, BallOf(w2, id))
    IN Leaves(HitPaddle(HitPaddle(SetBall(w, WallBounce(BallOf(w, id), w.store)),
                                  id, "left"),
                        id, "right"))

\* for ball in list(self.balls), from position i of the copied list on
RECURSIVE ResolveLoop(_, _, _)
ResolveLoop(w, snapshot, i) ==
    IF i > Len(snapshot) \/ w.err # None THEN w
    ELSE ResolveLoop(ResolveBall(w, snapshot[i].ball_id), snapshot, i + 1)

MaxScore(g) == Max(g.score.left, g.score.right)

\* _handle_collisions that resets the round whenever no ball is left,
\* whatever the scores
handle_collisions_ResetAlways(w) ==
    LET Resolved(w2) == [w2 EXCEPT !.unresolved = w.g.balls, !.resolved = w2.g.balls]
        Reset(w1) ==
            IF w1.err = None /\ w1.g.balls = <<>>
            THEN reset_round(w1, "resolver")
            ELSE w1
    IN Resolved(Reset(ResolveLoop(w, w.g.balls, 1)))

\* _handle_collisions that never resets the round
handle_collisions_NoReset(w) ==
    LET Resolved(w2) == [w2 EXCEPT !.unresolved = w.g.balls, !.resolved = w2.g.balls]
    IN Resolved(ResolveLoop(w, w.g.balls, 1))

\* PongGame._handle_collisions()
handle_collisions(w) ==
    LET Resolved(w2) == [w2 EXCEPT !.unresolved = w.g.balls, !.resolved = w2.g.balls]
        Reset(w1) ==
            IF w1.err = None /\ w1.g.balls = <<>>
               /\ MaxScore(w1.g) < w1.store.match.win_score
            THEN reset_round(w1, "resolver")
            ELSE w1
    IN Resolved(Reset(ResolveLoop(w, w.g.balls, 1)))

\* min(self.balls, key=lambda b: abs(b.x - self.right_paddle.x)): the
\* first ball of the list at the least distance
NearestBall(g) ==
    LET dist(b) == Abs(b.x - g.right.x * PosScale)
        least == CHOOSE i \in 1..Len(g.balls) :
                     /\ \A j \in 1..Len(g.balls) : dist(g.balls[i]) <= dist(g.balls[j])
                     /\ \A j \in 1..(i - 1) : dist(g.balls[j]) > dist(g.balls[i])
    IN g.balls[least]

\* _ai_keys that follows the first ball of the list
AiKeys_FirstBall(g, st) ==
    IF g.balls = <<>> THEN [up |-> FALSE, down |-> FALSE]
    ELSE LET paddle_center == g.right.y + (st.paddle.height * PosScale) \div 2
             target_y == g.balls[1].y + (st.ball.size * PosScale) \div 2
         IN IF Abs(target_y - paddle_center) <= AiMargin * PosScale
            THEN [up |-> FALSE, down |-> FALSE]
            ELSE [up |-> target_y < paddle_center, down |-> target_y > paddle_center]

\* The keys PongGame._ai_keys returns
AiKeys(g, st) ==
    IF g.balls = <<>> THEN [up |-> FALSE, down |-> FALSE]
    ELSE LET paddle_center == g.right.y + (st.paddle.height * PosScale) \div 2
             target_y == NearestBall(g).y + (st.ball.size * PosScale) \div 2
         IN IF Abs(target_y - paddle_center) <= AiMargin * PosScale
            THEN [up |-> FALSE, down |-> FALSE]
            ELSE [up |-> target_y < paddle_center, down |-> target_y > paddle_center]

\* The paddle part of update: the left paddle on W / S; the right paddle
\* on the arrow keys, or on _ai_keys with the bot's speed factor.  The keys
\* _ai_keys returned are kept in w.ai (None when it was not called).
UpdatePaddles(w, dt, keys) ==
    LET left == PaddleUpdate(w.g.left, w.store, dt, keys.w, keys.s)
        bot == [w.g.right EXCEPT !.speed_multiplier = AiFactor(w.g.bot_mode)]
        ai == AiKeys([w.g EXCEPT !.left = left, !.right = bot], w.store)
        right == IF w.g.bot_mode # None
                 THEN PaddleUpdate(bot, w.store, dt, ai.up, ai.down)
                 ELSE PaddleUpdate(w.g.right, w.store, dt, keys.up, keys.down)
    IN [w EXCEPT !.g.left = left, !.g.right = right,
                 !.ai = IF w.g.bot_mode # None THEN ai ELSE None]

UpdateBalls(w, dt) ==
    [w EXCEPT !.g.balls = [i \in 1..Len(@) |-> BallUpdate(@[i], dt)]]

\* ChaosSystem.update that publishes SpawnBallRequested before
\* SettingsChangeRequested
chaos_update_SpawnFirst(w, dt) ==
    LET elapsed == w.g.elapsed + dt
        speed_variation == Trunc(w.store.ball.speed * w.rnd.speed, 100)
        size_variation == Max(8, Min(32, Trunc(w.store.ball.size * w.rnd.size, 100)))
    IN IF elapsed < ChaosInterval
       THEN [w EXCEPT !.g.elapsed = elapsed]
       ELSE BusPublish(
                BusPublish([w EXCEPT !.g.elapsed = 0, !.fired = TRUE],
                           Event("SpawnBallRequested", "", 1, <<>>)),
                Event("SettingsChangeRequested", "ball", 0,
                      <<<<"speed", speed_variation>>,
                        <<"size", size_variation>>>>))

\* ChaosSystem.update(dt); w.rnd holds the two random.uniform outcomes in
\* hundredths
chaos_update(w, dt) ==
    LET elapsed == w.g.elapsed + dt
        speed_variation == Trunc(w.store.ball.speed * w.rnd.speed, 100)
        size_variation == Max(8, Min(32, Trunc(w.store.ball.size * w.rnd.size, 100)))
    IN IF elapsed < ChaosInterval
       THEN [w EXCEPT !.g.elapsed = elapsed]
       ELSE BusPublish(
                BusPublish([w EXCEPT !.g.elapsed = 0, !.fired = TRUE],
                           Event("SettingsChangeRequested", "ball", 0,
                                 <<<<"speed", speed_variation>>,
                                   <<"size", size_variation>>>>)),
                Event("SpawnBallRequested", "", 1, <<>>))

\* SpeedBoostPowerup.update(dt) through PowerupManager.update
powerups_update(w, dt) ==
    LET timers == [pid \in {"left", "right"} |-> Max(0, w.g.timers[pid] - dt)]
        mult(pid) == IF timers[pid] > 0 THEN BoostFactor ELSE 100
    IN [w EXCEPT !.g.timers = timers,
                 !.g.left.speed_multiplier = mult("left"),
                 !.g.right.speed_multiplier = mult("right")]

\* The branch of update taken while no side has won
Advance(w, dt, keys) ==
    LET Powerups(w2) == IF w2.err = None THEN powerups_update(w2, dt) ELSE w2
        SpaceKey(w3) ==
            IF keys.space /\ w3.err = None
            THEN BusPublish(w3, Event("SpawnBallRequested", "", 1, <<>>))
            ELSE w3
    IN SpaceKey(Powerups(handle_collisions(chaos_update(
           UpdateBalls(UpdatePaddles(w, dt, keys), dt), dt))))

\* update that keeps advancing after a side has won
update_NoWinCheck(w, dt, keys) == Advance(w, dt, keys)

\* PongGame.update(dt) with the state of the keyboard
update(w, dt, keys) ==
    IF MaxScore(w.g) < w.store.match.win_score THEN Advance(w, dt, keys)
    ELSE IF keys.r THEN restart(w)
    ELSE w

\* PongGame.__init__(bus, settings, screen, bot_mode) on a surface of the
\* display size
Construct(st, ls, bot_mode, dirs) ==
    LET g == [bot_mode |-> bot_mode,
              left |-> [x |-> st.paddle.margin_x, y |-> CentreY(st),
                        speed_multiplier |-> 100],
              right |-> [x |-> st.display.width - st.paddle.margin_x - st.paddle.width,
                         y |-> CentreY(st), speed_multiplier |-> 100],
              score |-> [left |-> 0, right |-> 0],
              balls |-> <<>>,
              ball_seq |-> 0,
              elapsed |-> 0,
              timers |-> [left |-> 0, right |-> 0],
              screen |-> [width |-> st.display.width, height |-> st.display.height]]
    IN spawn_balls(World(st, PongGameSubscribes(ls, 1), g, dirs, [speed |-> 100, size |-> 100]),
                   st.ball.count_on_reset, -1, -1)

(***************************************************************************)
(* Operations on the match session                                         *)
(***************************************************************************)
\* Outcomes of random.choice([-1, 1]) for an operation that spawns at most
\* k balls
Directions(k) == [1..k -> {-1, 1}]

\* Outcomes of the two random.uniform calls of the chaos system, in
\* hundredths: the ends of (0.85, 1.3) and of (0.8, 1.2)
ChaosRnd == [speed : {85, 130}, size : {80, 120}]
FirstRnd == [speed |-> 85, size |-> 80]

\* Outcomes that were not drawn are fixed, so that one run of an operation
\* is one transition.
Drawn(w, rnd) ==
    /\ \A i \in 1..Len(w.dirs) : w.dirs[i] = 1
    /\ w.fired \/ rnd = FirstRnd

\* The chaos system fires in a frame of dt ms from the current state.
ChaosFires(dt) ==
    /\ MaxScore(match) < settings.match.win_score
    /\ match.elapsed + dt >= ChaosInterval

\* The most balls one frame from the current state can spawn: a round
\* reset or a restart, the chaos system, and the space key.
FrameSpawns(dt, keys) ==
    IF MaxScore(match) < settings.match.win_score
    THEN settings.ball.count_on_reset + (IF ChaosFires(dt) THEN 1 ELSE 0)
             + (IF keys.space THEN 1 ELSE 0)
    ELSE IF keys.r THEN settings.ball.count_on_reset ELSE 0

FrameRnd(dt) == IF ChaosFires(dt) THEN ChaosRnd ELSE {FirstRnd}

MatchBecomes(w, call) ==
    /\ match' = w.g
    /\ settings' = w.store
    /\ listeners' = w.ls
    /\ ballLog' = ballLog \o w.assigned
    /\ matchCall' = [op |-> call.op, dt |-> call.dt, keys |-> call.keys,
                     s |-> call.s, values |-> call.values, n |-> call.n,
                     before |-> match, beforeStore |-> settings,
                     trace |-> w.log, assigned |-> w.assigned,
                     unresolved |-> w.unresolved, resolved |-> w.resolved,
                     err |-> w.err, ai |-> w.ai]
    /\ UNCHANGED <<patchCall, nPatches, subLog, busCall, managerVars, appVars,
                   paddleVars, ball, bounceCall>>

\* One frame: PongGame.update(dt) with the keyboard in state keys
Frame(dt, keys, dirs, rnd) ==
    \E w \in {update(World(settings, listeners, match, dirs, rnd), dt, keys)} :
       /\ Drawn(w, rnd)
       /\ nFrames' = nFrames + 1
       /\ UNCHANGED nRequests
       /\ MatchBecomes(w, [op |-> "update", dt |-> dt, keys |-> keys, s |-> "",
                           values |-> <<>>, n |-> 0])

\* bus.publish(SettingsChangeRequested(section, values)) by a publisher
\* outside the PongGame, between two frames
RequestSettingsChange(section, values) ==
    \E w \in {BusPublish(World(settings, listeners, match, <<>>, FirstRnd),
                         Event("SettingsChangeRequested", section, 0, values))} :
       /\ nRequests < MaxRequests
       /\ nRequests' = nRequests + 1
       /\ UNCHANGED nFrames
       /\ MatchBecomes(w, [op |-> "request_settings", dt |-> 0, keys |-> NoKeys,
                           s |-> section, values |-> values, n |-> 0])

\* bus.publish(SpawnBallRequested(count)) by a publisher outside the
\* PongGame, between two frames
RequestSpawn(count, dirs) ==
    \E w \in {BusPublish(World(settings, listeners, match, dirs, FirstRnd),
                         Event("SpawnBallRequested", "", count, <<>>))} :
       /\ nRequests < MaxRequests
       /\ Drawn(w, FirstRnd)
       /\ nRequests' = nRequests + 1
       /\ UNCHANGED nFrames
       /\ MatchBecomes(w, [op |-> "request_spawn", dt |-> 0, keys |-> NoKeys,
                           s |-> "", values |-> <<>>, n |-> count])

\* The state after PongGame.__init__ on store st
Constructed(st, bot_mode, dirs) ==
    \E w \in {Construct(st, <<>>, bot_mode, dirs)} :
       /\ Drawn(w, FirstRnd)
       /\ settings = st
       /\ patchCall = NoPatchCall
       /\ nPatches = 0
       /\ listeners = w.ls
       /\ subLog = <<>>
       /\ busCall = [op |-> None]
       /\ InitManagerIdle
       /\ InitAppIdle
       /\ InitPaddleIdle
       /\ match = w.g
       /\ matchCall = [op |-> "__init__", dt |-> 0, keys |-> NoKeys, s |-> "",
                       values |-> <<>>, n |-> 0, before |-> w.g, beforeStore |-> st,
                       trace |-> w.log, assigned |-> w.assigned,
                       unresolved |-> <<>>, resolved |-> <<>>, err |-> w.err]
       /\ nFrames = 0
       /\ nRequests = 0
       /\ ballLog = w.assigned
       /\ ball = [ball_id |-> 0]
       /\ bounceCall = [op |-> None, n |-> 0]

(***************************************************************************)
(* A match played to its end: short matches with one or two balls per      *)
(* round, and frames long enough to carry a ball across the display.       *)
(***************************************************************************)
WinScores == {1, 2}
ResetCounts == {1, 2}
BotModes == {None, "easy"}
MatchDts == {16, 2000}
MatchKeys == {NoKeys, [NoKeys EXCEPT !.s = TRUE], [NoKeys EXCEPT !.space = TRUE],
              [NoKeys EXCEPT !.r = TRUE]}

\* A store whose match and ball sections were built with these values
StoreWith(ws, count) ==
    [RuntimeSettings EXCEPT !.match.win_score = ws, !.ball.count_on_reset = count]

InitMatchSpec ==
    \E ws \in WinScores : \E count \in ResetCounts : \E bot \in BotModes :
        \E dirs \in Directions(count) :
            Constructed(StoreWith(ws, count), bot, dirs)

Frames(dts, keyStates) ==
    \E dt \in dts : \E keys \in keyStates :
        \E dirs \in Directions(FrameSpawns(dt, keys)) :
            \E rnd \in FrameRnd(dt) : Frame(dt, keys, dirs, rnd)

NextMatch == nFrames < MaxFrames /\ Frames(MatchDts, MatchKeys)

SpecMatch == InitMatchSpec /\ [][NextMatch]_vars

(***************************************************************************)
(* A match that receives events published by others on the shared bus      *)
(***************************************************************************)
MaxRequestFrames == 2   \* PongGame.update calls between the requests
RequestDts == {2000}
RequestKeys == {NoKeys, [NoKeys EXCEPT !.r = TRUE]}
SpawnCounts == {0, 2}
RequestArgs ==
    {<<"display", <<<<"height", 250>>>>>>,
     <<"paddle", <<<<"height", 250>>>>>>,
     <<"ball", <<<<"speed", 250>>, <<"bogus", 1>>>>>>,
     <<"bogus", <<>>>>}

InitRequests ==
    \E ws \in WinScores : \E dirs \in Directions(1) :
        Constructed(StoreWith(ws, 1), None, dirs)

NextRequests ==
    \/ nFrames < MaxRequestFrames /\ Frames(RequestDts, RequestKeys)
    \/ \E arg \in RequestArgs : RequestSettingsChange(arg[1], arg[2])
    \/ \E count \in SpawnCounts : \E dirs \in Directions(count) :
           RequestSpawn(count, dirs)

SpecRequests == InitRequests /\ [][NextRequests]_vars

(***************************************************************************)
(* Claims about the match session                                          *)
(***************************************************************************)
Won(g, st) == MaxScore(g) >= st.match.win_score

\* The entries of the last operation's trace of a kind, in order
RECURSIVE TraceOf(_, _)
TraceOf(trace, kind) ==
    IF trace = <<>> THEN <<>>
    ELSE IF Head(trace).kind = kind
    THEN <<Head(trace)>> \o TraceOf(Tail(trace), kind)
    ELSE TraceOf(Tail(trace), kind)

Published(kind) == TraceOf(matchCall.trace, kind)

PaddleInDisplay(p) ==
    0 <= p.y /\ p.y <= (settings.display.height - settings.paddle.height) * PosScale

\* C11 as stated: in every state of a match both paddles satisfy
\* 0 <= y <= display.height - paddle.height, also right after a round
\* reset, a restart, or a SettingsChangeRequested that changes
\* display.height or paddle.height.
C11_PaddlesInDisplay ==
    matchCall.op # None => (PaddleInDisplay(match.left) /\ PaddleInDisplay(match.right))

\* The balls that were fully off the left / right edge when the resolver
\* pass of the last frame began
OffLeft == {b \in Range(matchCall.unresolved) : b.x < -(settings.ball.size * PosScale)}
OffRight ==
    {b \in Range(matchCall.unresolved) :
         b.x > (settings.display.width + settings.ball.size) * PosScale}

Scored(scorer) == {i \in 1..Len(matchCall.trace) :
                       /\ matchCall.trace[i].kind = "PointScored"
                       /\ matchCall.trace[i].s = scorer}

Removed(b) == {i \in 1..Len(matchCall.trace) :
                   /\ matchCall.trace[i].kind = "BallRemoved"
                   /\ matchCall.trace[i].n = b.ball_id}

AtCentre(b) ==
    /\ b.x = ((settings.display.width - settings.ball.size) * PosScale) \div 2
    /\ b.y = ((settings.display.height - settings.ball.size) * PosScale) \div 2

ResolverRan == matchCall.op = "update" /\ ~Won(matchCall.before, matchCall.beforeStore)

\* C12: in the resolver pass of a frame, the balls off the left edge score
\* one PointScored "right" each and the balls past the right threshold one
\* PointScored "left" each; each of them is removed, with one BallRemoved;
\* and if then no ball is left and no side has reached win_score, the
\* pass ends with exactly ball.count_on_reset balls, all at the centre of
\* the display.
C12_ResolverScores ==
    ResolverRan =>
        /\ Cardinality(Scored("right")) = Cardinality(OffLeft)
        /\ Cardinality(Scored("left")) = Cardinality(OffRight)
        /\ \A b \in OffLeft \cup OffRight :
               /\ Cardinality(Removed(b)) = 1
               /\ \A c \in Range(matchCall.resolved) : c.ball_id # b.ball_id
        /\ (/\ Range(matchCall.unresolved) \subseteq OffLeft \cup OffRight
            /\ ~Won(match, settings))
               => /\ Len(matchCall.resolved) = settings.ball.count_on_reset
                  /\ \A c \in Range(matchCall.resolved) : AtCentre(c)

\* A frame in which one ball left over the left edge and one over the
\* right edge, and the round was reset with two new balls.
C12_Witness ==
    /\ ResolverRan
    /\ Cardinality(OffLeft) = 1
    /\ Cardinality(OffRight) = 1
    /\ Len(matchCall.unresolved) = 2
    /\ ~Won(match, settings)
    /\ Len(matchCall.resolved) = 2
    /\ Published("RoundReset") # <<>>

\* C13: the resolver calls _reset_round only when no ball is live and both
\* scores are below win_score; a frame that ends with a side at win_score
\* calls no _reset_round and publishes no RoundReset, and while a side is
\* at win_score only a frame with the restart key does.
C13_ResetOnlyWhileUndecided ==
    matchCall.op = "update" =>
        /\ \A i \in 1..Len(matchCall.trace) :
               (matchCall.trace[i].kind = "_reset_round" /\ matchCall.trace[i].s = "resolver")
                   => /\ matchCall.trace[i].nballs = 0
                      /\ matchCall.trace[i].score.left < settings.match.win_score
                      /\ matchCall.trace[i].score.right < settings.match.win_score
        /\ (ResolverRan /\ Won(match, settings))
               => (Published("_reset_round") = <<>> /\ Published("RoundReset") = <<>>)
        /\ (Won(matchCall.before, matchCall.beforeStore) /\ ~matchCall.keys.r)
               => (Published("_reset_round") = <<>> /\ Published("RoundReset") = <<>>)

\* The last ball left play on the point that reached win_score: no ball
\* is live, and nothing reset the round.
C13_Witness ==
    /\ ResolverRan
    /\ matchCall.unresolved # <<>>
    /\ Won(match, settings)
    /\ match.balls = <<>>
    /\ Published("PointScored") # <<>>
    /\ Published("RoundReset") = <<>>

\* C14: a frame that starts with a side at win_score and without the
\* restart key changes nothing of the match (paddles, balls, scores, chaos
\* timer, boost timers), nothing of the store, and publishes nothing, the
\* spawn-ball key included.
C14_WonFrameIsIdle ==
    (/\ matchCall.op = "update"
     /\ Won(matchCall.before, matchCall.beforeStore)
     /\ ~matchCall.keys.r)
        => /\ match = matchCall.before
           /\ settings = matchCall.beforeStore
           /\ matchCall.trace = <<>>

\* A two second frame with the space key held, after a side had won.
C14_Witness ==
    /\ matchCall.op = "update"
    /\ Won(matchCall.before, matchCall.beforeStore)
    /\ matchCall.keys.space
    /\ matchCall.dt = 2000
    /\ match = matchCall.before

Restarted ==
    \E i \in 1..Len(matchCall.trace) :
        matchCall.trace[i].kind = "_reset_round" /\ matchCall.trace[i].s = "restart"

\* C15: a frame restarts the match only if a side had reached win_score
\* and the restart key is down; the restart leaves both scores 0, both
\* paddles centred, exactly ball.count_on_reset balls, all numbered after
\* every earlier ball, and publishes RoundReset; and the frame after a
\* restart advances the match again (the chaos timer runs).
C15_RestartState ==
    matchCall.op = "update" =>
        /\ Restarted <=> (Won(matchCall.before, matchCall.beforeStore) /\ matchCall.keys.r)
        /\ Restarted =>
               /\ match.score = [left |-> 0, right |-> 0]
               /\ match.left.y = CentreY(settings)
               /\ match.right.y = CentreY(settings)
               /\ Len(match.balls) = settings.ball.count_on_reset
               /\ \A b \in Range(match.balls) :
                      b.ball_id > matchCall.before.ball_seq /\ AtCentre(b)
               /\ Len(Published("RoundReset")) = 1

C15_Resumes ==
    (matchCall.op = "update" /\ Restarted /\ nFrames' = nFrames + 1)
        => \/ match'.elapsed = match.elapsed + matchCall'.dt
           \/ match'.elapsed = 0

C15_Restart == [](C15_RestartState) /\ [][C15_Resumes]_vars

\* A restart after a match won with two balls per round.
C15_Witness ==
    /\ matchCall.op = "update"
    /\ Restarted
    /\ matchCall.before.score.left >= settings.match.win_score
    /\ Len(match.balls) = 2
    /\ match.score = [left |-> 0, right |-> 0]

\* C16 as stated: scores are non-negative, no score exceeds win_score, and
\* at most one side reaches it.
C16_ScoresWithinWinScore ==
    matchCall.op # None =>
        /\ 0 <= match.score.left /\ match.score.left <= settings.match.win_score
        /\ 0 <= match.score.right /\ match.score.right <= settings.match.win_score
        /\ ~(/\ match.score.left >= settings.match.win_score
             /\ match.score.right >= settings.match.win_score)

\* Entry i of the last trace is a SettingsChangeRequested for the section
\* of entry j, published before it.
RequestedBefore(j) ==
    \E i \in 1..(j - 1) :
        /\ matchCall.trace[i].kind = "SettingsChangeRequested"
        /\ matchCall.trace[i].s = matchCall.trace[j].s

\* C19: a SettingsChangeRequested delivered to the match patches the store
\* and then publishes one SettingsChanged with the same section and the
\* applied values; at the moment SettingsChanged is published the store
\* holds those values and, for section display, the surface has the
\* display's size; when the patch fails no SettingsChanged is published
\* and the error reaches the publisher of the request.
C19_SettingsChangedAfterPatch ==
    /\ matchCall.op \in {"update", "request_settings", "request_spawn"} =>
           \A j \in 1..Len(matchCall.trace) :
               matchCall.trace[j].kind = "SettingsChanged"
                   => /\ RequestedBefore(j)
                      /\ matchCall.trace[j].held
                      /\ Holds(settings, matchCall.trace[j].s, matchCall.trace[j].values)
                      /\ matchCall.trace[j].s = "display"
                             => matchCall.trace[j].screen = matchCall.trace[j].display
    /\ matchCall.op = "request_settings" =>
           LET r == patch(matchCall.beforeStore, matchCall.s, matchCall.values)
               changed == Published("SettingsChanged")
           IN IF r.outcome = "ok"
              THEN /\ matchCall.err = None
                   /\ settings = r.store
                   /\ Len(changed) = 1
                   /\ changed[1].s = matchCall.s
                   /\ changed[1].values = r.applied
              ELSE /\ matchCall.err = r.outcome
                   /\ changed = <<>>

\* A request that shrank the display: SettingsChanged came after the store
\* and the surface had the new height.
C19_Witness ==
    /\ matchCall.op = "request_settings"
    /\ matchCall.s = "display"
    /\ matchCall.beforeStore.display.height = 540
    /\ settings.display.height = 250
    /\ match.screen.height = 250
    /\ Len(Published("SettingsChanged")) = 1
    /\ Published("SettingsChanged")[1].held

\* The numbers of the BallSpawned events of the last operation, in order
RECURSIVE Numbers(_)
Numbers(entries) ==
    IF entries = <<>> THEN <<>> ELSE <<Head(entries).n>> \o Numbers(Tail(entries))

\* C20: the ball numbers a match assigns are strictly increasing over all
\* its spawns, so no two balls, live or removed, share one; the live balls
\* carry assigned numbers, each a different one; and every ball spawned by
\* the last operation was announced by one BallSpawned with its number.
C20_BallIdsUnique ==
    matchCall.op # None =>
        /\ \A i, j \in 1..Len(ballLog) : i < j => ballLog[i] < ballLog[j]
        /\ \A i \in 1..Len(match.balls) : match.balls[i].ball_id \in Range(ballLog)
        /\ \A i, j \in 1..Len(match.balls) :
               i # j => match.balls[i].ball_id # match.balls[j].ball_id
        /\ Numbers(Published("BallSpawned")) = matchCall.assigned
        /\ Len(ballLog) >= Len(matchCall.assigned)
        /\ SubSeq(ballLog, Len(ballLog) - Len(matchCall.assigned) + 1, Len(ballLog))
               = matchCall.assigned

\* A SpawnBallRequested with count 2 after an earlier respawn: two new
\* balls, numbered after the balls spawned before, one of them removed.
C20_Witness ==
    /\ matchCall.op = "request_spawn"
    /\ matchCall.n = 2
    /\ Len(matchCall.assigned) = 2
    /\ Len(ballLog) >= 4
    /\ \E i \in 1..Len(ballLog) : \A b \in Range(match.balls) : b.ball_id # ballLog[i]

(***************************************************************************)
(* A match in which the chaos system fires.  The store is shared by every  *)
(* match of the application, so a match starts on the defaults or on the   *)
(* ball speed and size an earlier firing left.  Frames have a few lengths  *)
(* that add up to the chaos interval, and the right paddle is steered      *)
(* with the DOWN key.                                                      *)
(***************************************************************************)
MaxChaosFrames == 4   \* PongGame.update calls per behaviour
ChaosDts == {16, 200, 1500, 5284}
ChaosKeys == {NoKeys, [NoKeys EXCEPT !.down = TRUE]}

\* ball.speed and ball.size: the defaults, and the defaults after the
\* chaos system fired once with the factors 0.85 and 1.2
ChaosBalls == {<<300, 16>>, <<255, 19>>}

InitChaos ==
    \E bs \in ChaosBalls : \E dirs \in Directions(1) :
        Constructed([RuntimeSettings EXCEPT !.ball.speed = bs[1], !.ball.size = bs[2]],
                    None, dirs)

NextChaos == nFrames < MaxChaosFrames /\ Frames(ChaosDts, ChaosKeys)

SpecChaos == InitChaos /\ [][NextChaos]_vars

\* The bounce_from_paddle calls of the last operation
Bounces == Published("bounce_from_paddle")

\* C17: every bounce_from_paddle call leaves the ball's horizontal velocity
\* pointing away from the paddle it struck: to the right (positive) off the
\* left paddle, to the left (negative) off the right paddle.
C17_BounceAwayFromPaddle ==
    \A i \in 1..Len(Bounces) :
        /\ Bounces[i].s = "left" => Bounces[i].n > 0
        /\ Bounces[i].s = "right" => Bounces[i].n < 0

(***************************************************************************)
(* Ball.bounce_from_paddle for balls of the velocities the game gives      *)
(* them, at hit positions above, on and below the paddle's centre          *)
(***************************************************************************)
MaxBounces == 2   \* bounce_from_paddle calls per behaviour

\* Velocities in pixels per second as _spawn_balls sets them for the
\* speeds 300, 255 and 390, and one of a ball moving straight
BallVelocities == {<<300, 99>>, <<-300, -99>>, <<255, 84>>, <<-390, -128>>, <<-300, 0>>}
BallYs == {0, 215, 262, 300, 524}
BouncePaddleYs == {0, 215, 430}
BounceAngles == {65, 30}

PaddleAt(side, st, y) ==
    [x |-> IF side = "left" THEN st.paddle.margin_x
           ELSE st.display.width - st.paddle.margin_x - st.paddle.width,
     y |-> y * PosScale, speed_multiplier |-> 100]

\* ball.bounce_from_paddle(paddle) on the ball of the state
Bounce(side, py) ==
    /\ bounceCall.n < MaxBounces
    /\ ball' = bounce_from_paddle(ball, PaddleAt(side, settings, py), settings)
    /\ bounceCall' = [op |-> "bounce_from_paddle", side |-> side,
                      paddle |-> PaddleAt(side, settings, py), before |-> ball,
                      n |-> bounceCall.n + 1]
    /\ UNCHANGED <<settingsVars, busVars, managerVars, appVars, paddleVars,
                   match, matchCall, nFrames, nRequests, ballLog>>

InitBounce ==
    /\ \E deg \in BounceAngles :
           settings = [RuntimeSettings EXCEPT !.ball.max_bounce_angle_deg = deg]
    /\ patchCall = NoPatchCall
    /\ nPatches = 0
    /\ InitBusIdle
    /\ InitManagerIdle
    /\ InitAppIdle
    /\ InitPaddleIdle
    /\ match = [bot_mode |-> None]
    /\ matchCall = [op |-> None]
    /\ nFrames = 0
    /\ nRequests = 0
    /\ ballLog = <<>>
    /\ \E v \in BallVelocities : \E y \in BallYs :
           ball = [ball_id |-> 1, x |-> 472 * PosScale, y |-> y * PosScale,
                   velocity_x |-> v[1] * VelScale, velocity_y |-> v[2] * VelScale]
    /\ bounceCall = [op |-> None, n |-> 0]

NextBounce == \E side \in {"left", "right"} : \E py \in BouncePaddleYs : Bounce(side, py)

SpecBounce == InitBounce /\ [][NextBounce]_vars

\* The ball's speed: hypot(velocity_x, velocity_y)
Speed(b) == Hypot(b.velocity_x, b.velocity_y)

\* The ball's centre is level with the paddle's centre.
HitAtCentre(b, p, st) ==
    b.y + (st.ball.size * PosScale) \div 2 = p.y + (st.paddle.height * PosScale) \div 2

\* C18: every bounce_from_paddle call leaves the ball's speed
\* hypot(velocity_x, velocity_y) what it was before the call, to within
\* 0.3 pixel per second of rounding; the bounce is no steeper than
\* max_bounce_angle_deg; and a hit at the paddle's centre leaves the ball
\* moving horizontally, velocity_y = 0.
C18_BouncePreservesSpeed ==
    bounceCall.op = "bounce_from_paddle" =>
        /\ Abs(Speed(ball) - Speed(bounceCall.before)) * 10 <= 3 * VelScale
        /\ Abs(ball.velocity_y) * TrigScale
               <= Speed(bounceCall.before) * Sin(settings.ball.max_bounce_angle_deg)
        /\ HitAtCentre(bounceCall.before, bounceCall.paddle, settings)
               => ball.velocity_y = 0

\* A ball moving at an angle hit the paddle's centre and left it moving
\* horizontally, faster along x than it came.
C18_Witness ==
    /\ bounceCall.op = "bounce_from_paddle"
    /\ bounceCall.before.velocity_y # 0
    /\ HitAtCentre(bounceCall.before, bounceCall.paddle, settings)
    /\ ball.velocity_y = 0
    /\ Abs(ball.velocity_x) > Abs(bounceCall.before.velocity_x)

\* The numbers of the balls in a list
BallIds(balls) == {balls[i].ball_id : i \in 1..Len(balls)}

\* C21: a ball that leaves over the left or right edge is removed only
\* after its point is recorded: every BallRemoved of a frame directly
\* follows a PointScored that was published while the ball was still live,
\* and when BallRemoved is published the scorer's counter is already one
\* higher and the ball is gone; there are as many PointScored as
\* BallRemoved, and no ball is removed twice: each removed ball was live
\* when the frame began or was spawned in it, is removed once, and is not
\* live afterwards.
C21_ScoredBeforeRemoved ==
    matchCall.op = "update" =>
        /\ \A j \in 1..Len(matchCall.trace) :
               matchCall.trace[j].kind = "BallRemoved" =>
                   /\ j > 1
                   /\ matchCall.trace[j - 1].kind = "PointScored"
                   /\ matchCall.trace[j - 1].nballs = matchCall.trace[j].nballs + 1
                   /\ matchCall.trace[j].score[matchCall.trace[j - 1].s]
                          = matchCall.trace[j - 1].score[matchCall.trace[j - 1].s] + 1
                   /\ matchCall.trace[j].n
                          \in BallIds(matchCall.before.balls) \cup Range(matchCall.assigned)
                   /\ matchCall.trace[j].n \notin BallIds(match.balls)
                   /\ \A k \in 1..Len(matchCall.trace) :
                          (matchCall.trace[k].kind = "BallRemoved"
                               /\ matchCall.trace[k].n = matchCall.trace[j].n) => k = j
        /\ Len(Published("PointScored")) = Len(Published("BallRemoved"))

\* Two balls left play in one frame, one after the other: two points and
\* two removals.
C21_Witness ==
    /\ matchCall.op = "update"
    /\ Len(Published("BallRemoved")) = 2
    /\ Len(Published("PointScored")) = 2
    /\ match.score.left + match.score.right
           = matchCall.before.score.left + matchCall.before.score.right + 2

(***************************************************************************)
(* The routes into and out of the settings scene: from the title scene,    *)
(* and from the pause scene of a running match                             *)
(***************************************************************************)
MaxRouteHistory == 11   \* length of _history along the routes

RouteEvent ==
    \/ \E label \in {"Play", "Settings"} : TitleRoute(label)
    \/ ModeSelect("play_menu")
    \/ PlayMenuSelect("easy")
    \/ PlayKeyPause
    \/ PauseResume
    \/ PauseOpenSettings
    \/ PauseQuitToTitle
    \/ SettingsApply
    \/ SettingsBack

NextRoutes == Len(history) < MaxRouteHistory /\ RouteEvent

SpecRoutes == Init /\ [][NextRoutes]_vars

\* The scene that was left for the current one
Caller(h) == h[Len(h)]

\* C22: while the settings scene is current its return_scene is the scene
\* that opened it, the title or the pause scene, and Apply or Back makes
\* that scene current again, whatever visits to the settings scene came
\* before.
C22_SettingsReturnsToCaller ==
    /\ current = "settings"
           => /\ history # <<>>
              /\ Caller(history) \in {"title", "pause"}
              /\ return_scene = Caller(history)
    /\ (sceneCall.op = "set_scene" /\ Before.current = "settings")
           => /\ sceneCall.error = None
              /\ current = Caller(Before.history)

\* The settings scene, opened from the pause scene after an earlier visit
\* from the title scene, returned to the pause scene.
C22_Witness ==
    /\ sceneCall.op = "set_scene"
    /\ Before.current = "settings"
    /\ current = "pause"
    /\ Len(Before.history) >= 3
    /\ SubSeq(Before.history, 1, 3) = <<"title", "settings", "title">>

(***************************************************************************)
(* A match in which balls reach the paddles: frames long enough to carry a *)
(* ball from the centre to a paddle in two steps, the left paddle steered  *)
(* with W and S, the right paddle by the arrow keys or by the bot.         *)
(***************************************************************************)
MaxBoostFrames == 4   \* PongGame.update calls per behaviour
BoostDts == {300, 1200}
BoostKeys == {NoKeys, [NoKeys EXCEPT !.w = TRUE], [NoKeys EXCEPT !.s = TRUE]}
BoostBots == {None, "easy", "hard"}

InitBoost ==
    \E count \in ResetCounts : \E bot \in BoostBots : \E dirs \in Directions(count) :
        Constructed(StoreWith(10, count), bot, dirs)

NextBoost == nFrames < MaxBoostFrames /\ Frames(BoostDts, BoostKeys)

SpecBoost == InitBoost /\ [][NextBoost]_vars

\* The frame advanced the game: no side had won when it began.
Advanced == matchCall.op = "update" /\ ~Won(matchCall.before, matchCall.beforeStore)

\* The value of paddle pid's boost timer after the events of the trace,
\* starting from timer: a hit of pid arms it, a point clears it.
RECURSIVE TimerAfter(_, _, _)
TimerAfter(trace, pid, timer) ==
    IF trace = <<>> THEN timer
    ELSE TimerAfter(Tail(trace), pid,
                    IF Head(trace).kind = "BallHitPaddle" /\ Head(trace).s = pid
                    THEN BoostDuration
                    ELSE IF Head(trace).kind = "PointScored" THEN 0
                    ELSE timer)

\* The multiplier a paddle with this boost timer moves with, in hundredths
Boosted(timer) == IF timer > 0 THEN BoostFactor ELSE 100

\* Where paddle pid is after a frame in which it moved with the multiplier
\* of its boost timer, under the keys that steer it
BoostedY(pid) ==
    LET p == [matchCall.before[pid] EXCEPT
                  !.speed_multiplier = Boosted(matchCall.before.timers[pid])]
        ai == AiKeys(matchCall.before, matchCall.beforeStore)
    IN IF pid = "left"
       THEN PaddleUpdate(p, matchCall.beforeStore, matchCall.dt,
                         matchCall.keys.w, matchCall.keys.s).y
       ELSE IF matchCall.before.bot_mode # None
       THEN PaddleUpdate(p, matchCall.beforeStore, matchCall.dt, ai.up, ai.down).y
       ELSE PaddleUpdate(p, matchCall.beforeStore, matchCall.dt,
                         matchCall.keys.up, matchCall.keys.down).y

\* C23 as stated: in every frame that advances the game, for the left and
\* for the right paddle, bot-driven or not: BallHitPaddle for the paddle
\* sets its boost timer to the boost duration and PointScored sets both
\* timers to 0; the powerup update then takes dt off the timer, not below
\* 0; the paddle's multiplier is 1.6 while its timer is above 0 and 1.0
\* otherwise; and a paddle whose timer was above 0 when the frame began
\* moves in the frame with 1.6 times its speed.
C23_SpeedBoost ==
    Advanced =>
        \A pid \in {"left", "right"} :
            /\ match.timers[pid]
                   = Max(0, TimerAfter(matchCall.trace, pid, matchCall.before.timers[pid])
                            - matchCall.dt)
            /\ match[pid].speed_multiplier = Boosted(match.timers[pid])
            /\ (matchCall.before.timers[pid] > 0 /\ Published("_reset_round") = <<>>)
                   => match[pid].y = BoostedY(pid)

(***************************************************************************)
(* A match left alone over frames long enough for the chaos system to fire *)
(***************************************************************************)
MaxIntervalFrames == 4   \* PongGame.update calls per behaviour
IntervalDts == {2000, 5000}
IntervalBalls == {<<300, 16>>, <<390, 19>>}

InitInterval ==
    \E bs \in IntervalBalls : \E dirs \in Directions(1) :
        Constructed([RuntimeSettings EXCEPT !.ball.speed = bs[1], !.ball.size = bs[2]],
                    None, dirs)

NextInterval == nFrames < MaxIntervalFrames /\ Frames(IntervalDts, {NoKeys})

SpecInterval == InitInterval /\ [][NextInterval]_vars

\* The positions in the last operation's trace of the events of a kind
TraceIndex(kind) ==
    {i \in 1..Len(matchCall.trace) : matchCall.trace[i].kind = kind}

\* The chaos system fired in the last frame: where in the trace it
\* requested the settings change and the ball
ChaosRequest == CHOOSE i \in TraceIndex("SettingsChangeRequested") : TRUE
ChaosSpawn == CHOOSE i \in TraceIndex("SpawnBallRequested") : TRUE

\* C24: in a frame that advances the game the chaos system fires if and
\* only if the time accumulated since it last fired, dt included, has
\* reached the interval of 7 s; a frame in which it fires holds exactly one
\* SettingsChangeRequested, for section "ball" with the fields speed and
\* size, and after it exactly one SpawnBallRequested with count 1, and
\* leaves the accumulated time at 0; the ball spawned on that request has
\* the speed the store holds after the patch, which is the speed requested.
\* A frame in which it does not fire adds dt to the accumulated time.
C24_ChaosInterval ==
    Advanced =>
        IF matchCall.before.elapsed + matchCall.dt >= ChaosInterval
        THEN /\ Cardinality(TraceIndex("SettingsChangeRequested")) = 1
             /\ Cardinality(TraceIndex("SpawnBallRequested")) = 1
             /\ ChaosRequest < ChaosSpawn
             /\ LET req == matchCall.trace[ChaosRequest]
                    spawn == matchCall.trace[ChaosSpawn]
                    born == matchCall.trace[ChaosSpawn + 1]
                IN /\ req.s = "ball"
                   /\ Len(req.values) = 2
                   /\ req.values[1][1] = "speed"
                   /\ req.values[2][1] = "size"
                   /\ spawn.n = 1
                   /\ born.kind = "BallSpawned"
                   /\ settings.ball.speed = req.values[1][2]
                   /\ settings.ball.size = req.values[2][2]
                   /\ Published("_reset_round") = <<>> =>
                          \E i \in 1..Len(match.balls) :
                              /\ match.balls[i].ball_id = born.n
                              /\ Abs(match.balls[i].velocity_x)
                                     = settings.ball.speed * VelScale
             /\ match.elapsed = 0
        ELSE /\ TraceIndex("SettingsChangeRequested") = {}
             /\ TraceIndex("SpawnBallRequested") = {}
             /\ match.elapsed = matchCall.before.elapsed + matchCall.dt

\* The chaos system fires in a frame that began with time accumulated by
\* earlier frames, and changes the ball speed for the ball it spawns.
C24_Witness ==
    /\ Advanced
    /\ matchCall.before.elapsed > 0
    /\ matchCall.before.elapsed < ChaosInterval
    /\ TraceIndex("SettingsChangeRequested") # {}
    /\ Published("_reset_round") = <<>>
    /\ settings.ball.speed # matchCall.beforeStore.ball.speed
    /\ Len(ballLog) >= 2

(***************************************************************************)
(* An event bus whose listeners may raise                                  *)
(***************************************************************************)
ThrowKinds == {"GameEvent", "PointScored"}

\* The for loop of publish from position i on, when the listeners in raises
\* raise an exception on being called: the loop has no try, so the call of
\* such a listener is the last one.
RECURSIVE DispatchRaising(_, _, _, _, _)
DispatchRaising(list, kind, i, invoked, raises) ==
    IF i > Len(list) THEN [invoked |-> invoked, error |-> None]
    ELSE IF list[i] \in raises
    THEN [invoked |-> Append(invoked, <<list[i], kind>>), error |-> "Exception"]
    ELSE DispatchRaising(list, kind, i + 1, Append(invoked, <<list[i], kind>>), raises)

\* publish with every listener call wrapped in try / except
publishRaising_Caught(ls, kind, raises) ==
    [listeners |-> Touch(ls, kind),
     invoked |-> Dispatch(Touch(ls, kind)[kind], kind, 1, <<>>),
     error |-> None]

\* EventBus.publish(event) for an event of class kind, as seen by its
\* caller: the listeners called and the exception that reaches the caller
publishRaising(ls, kind, raises) ==
    LET r == DispatchRaising(Touch(ls, kind)[kind], kind, 1, <<>>, raises)
    IN [listeners |-> Touch(ls, kind), invoked |-> r.invoked, error |-> r.error]

PublishRaising(kind, raises) ==
    /\ LET r == publishRaising(listeners, kind, raises)
       IN /\ listeners' = r.listeners
          /\ busCall' = [op |-> "publish", kind |-> kind, invoked |-> r.invoked,
                         raises |-> raises, error |-> r.error]
    /\ UNCHANGED <<subLog, settingsVars, managerVars, appVars, paddleVars, matchVars>>

NextThrow ==
    \/ \E kind \in ThrowKinds : \E listener \in Listeners : Subscribe(kind, listener)
    \/ \E kind \in ThrowKinds : \E raises \in SUBSET Listeners : PublishRaising(kind, raises)

SpecThrow == InitBusSpec /\ [][NextThrow]_vars

\* The positions among the subscriptions for the kind last published of
\* the listeners that raised in that publication
Raisers ==
    {i \in 1..Len(SubscribedFor(busCall.kind)) :
         SubscribedFor(busCall.kind)[i][2] \in busCall.raises}

\* C25: a publish in which a listener raises calls the listeners subscribed
\* for the kind in subscription order up to and including the first one
\* that raises and none after it, and the exception reaches the caller; a
\* publish in which none raises calls them all and returns normally; and in
\* every state, so also after a publish that raised, the listeners the bus
\* holds for each kind are the subscriptions made for it, in call order.
C25_ListenerErrorPropagates ==
    /\ \A k \in DOMAIN listeners :
           /\ Len(listeners[k]) = Len(SubscribedFor(k))
           /\ \A i \in 1..Len(listeners[k]) : listeners[k][i] = SubscribedFor(k)[i][2]
    /\ busCall.op = "publish" =>
           LET subs == SubscribedFor(busCall.kind)
               last == IF Raisers = {} THEN Len(subs)
                       ELSE CHOOSE i \in Raisers : \A j \in Raisers : i <= j
           IN /\ busCall.error = (IF Raisers = {} THEN None ELSE "Exception")
              /\ Len(busCall.invoked) = last
              /\ \A i \in 1..last : busCall.invoked[i] = <<subs[i][2], busCall.kind>>

\* The second of three listeners subscribed for the kind raised: the first
\* two were called, the third was not, and it is still subscribed.
C25_Witness ==
    /\ busCall.op = "publish"
    /\ busCall.error = "Exception"
    /\ Len(busCall.invoked) = 2
    /\ Len(listeners[busCall.kind]) = 3
    /\ listeners[busCall.kind][3] \notin busCall.raises

(***************************************************************************)
(* Scene manager calls that may name a scene that was never registered;    *)
(* the KeyError of such a call ends the program.                           *)
(***************************************************************************)
Unregistered == {"credits"}

NextNames ==
    /\ sceneCall.error = None
    /\ \/ \E name \in scenes \cup Unregistered : SetScene(name)
       \/ GoBack

SpecNames == InitManagerSpec /\ [][NextNames]_vars

\* C26 as stated: set_scene with a name that was never registered fails
\* with an error, and fires no hook, leaves the history stack and the
\* current scene as they were, so that the current scene is a registered
\* scene (or still none) afterwards.
C26_UnregisteredSceneFailsCleanly ==
    (sceneCall.op = "set_scene" /\ sceneCall.name \notin scenes)
        => /\ sceneCall.error # None
           /\ hooks = <<>>
           /\ history = Before.history
           /\ current = Before.current
           /\ (Truthy(current) => current \in scenes)

\* The listener calls of publish(SettingsChangeRequested) on a synchronous
\* bus with the current subscriptions: each handler of the request, and
\* right after it every listener of the SettingsChanged it publishes.
NestedCalls ==
    LET hs == Touch(listeners, "SettingsChangeRequested")["SettingsChangeRequested"]
        cs == Touch(listeners, "SettingsChanged")["SettingsChanged"]
        width == 1 + Len(cs)
    IN [k \in 1..(Len(hs) * width) |->
            IF (k - 1) % width = 0
            THEN <<hs[(k - 1) \div width + 1], "SettingsChangeRequested">>
            ELSE <<cs[(k - 1) % width], "SettingsChanged">>]

\* C27: when the publish(SettingsChangeRequested) of SettingsScene._apply
\* returns, every handler of the request has been called in subscription
\* order, and between a handler's call and the call of the next handler
\* every listener of SettingsChanged (the skin managers) has been called
\* for the SettingsChanged that handler published; a dispatch ended by an
\* error has made a prefix of these calls.
C27_NestedPublishCompletes ==
    [][SettingsApply =>
           /\ Len(busCall'.invoked) <= Len(NestedCalls')
           /\ \A k \in 1..Len(busCall'.invoked) : busCall'.invoked[k] = NestedCalls'[k]
           /\ loop' # "crashed" => Len(busCall'.invoked) = Len(NestedCalls')]_vars

\* A request published with two PongGames on the bus: the first game's
\* handler, both skin managers, the second game's handler, both skin
\* managers again.
C27_Witness ==
    /\ busCall.op = "publish"
    /\ busCall.kind = "SettingsChangeRequested"
    /\ loop # "crashed"
    /\ Len(busCall.invoked) = 6
    /\ busCall.invoked[2][2] = "SettingsChanged"
    /\ busCall.invoked[4][2] = "SettingsChangeRequested"

(***************************************************************************)
(* A match played with the ball settings a chaos firing left (speed 255,   *)
(* size 19), over frames in which the ball reaches the right paddle and    *)
(* the chaos system fires again                                            *)
(***************************************************************************)
MaxGuardFrames == 4   \* PongGame.update calls per behaviour

InitGuard ==
    \E dirs \in Directions(1) :
        Constructed([RuntimeSettings EXCEPT !.ball.speed = 255, !.ball.size = 19],
                    None, dirs)

NextGuard == nFrames < MaxGuardFrames /\ Frames(ChaosDts, ChaosKeys)

SpecGuard == InitGuard /\ [][NextGuard]_vars

\* Where bounce_from_paddle puts a ball that leaves the paddle of a side
\* with horizontal velocity vx: against the paddle's right edge if it moves
\* right, against its left edge otherwise
FlushX(side, vx, g, st) ==
    IF vx > 0 THEN (g[side].x + st.paddle.width) * PosScale
    ELSE (g[side].x - st.ball.size) * PosScale

\* Ball b is as bounce_from_paddle leaves a ball at the paddle of a side:
\* flush against an edge and moving away from it.
FlushAway(b, side, g, st) ==
    b.velocity_x # 0 /\ b.x = FlushX(side, b.velocity_x, g, st)

\* The bounce_from_paddle calls of the last frame for ball id at a side
BouncesOf(id, side) ==
    {k \in TraceIndex("bounce_from_paddle") :
         matchCall.trace[k].s = side /\ matchCall.trace[k].values[1][2] = id}

\* Within a frame: every bounce_from_paddle leaves the ball flush against
\* an edge of the paddle struck with its box clear of the paddle's box, is
\* followed at once by the BallHitPaddle of that paddle, and no ball
\* bounces twice from one paddle.
GuardInFrame ==
    /\ \A k \in TraceIndex("bounce_from_paddle") :
           LET e == matchCall.trace[k]
               x == e.values[2][2]
               left == Trunc(x, PosScale)
           IN /\ x = FlushX(e.s, e.n, match, settings)
              /\ \/ left + settings.ball.size <= match[e.s].x
                 \/ left >= match[e.s].x + settings.paddle.width
              /\ k < Len(matchCall.trace)
              /\ matchCall.trace[k + 1].kind = "BallHitPaddle"
              /\ matchCall.trace[k + 1].s = e.s
    /\ Cardinality(TraceIndex("BallHitPaddle"))
           = Cardinality(TraceIndex("bounce_from_paddle"))
    /\ \A id \in BallIds(matchCall.before.balls) : \A side \in {"left", "right"} :
           Cardinality(BouncesOf(id, side)) <= 1

\* The balls that began the last frame as a bounce from the paddle of a
\* side leaves them and bounced from that paddle again in the frame
Recollided(side) ==
    {b \in Range(matchCall.before.balls) :
         /\ FlushAway(b, side, matchCall.before, matchCall.beforeStore)
         /\ BouncesOf(b.ball_id, side) # {}}

MaxWallSteps == 3   \* ball moves and wall steps per behaviour
WallYs == {-3, 0, 5, 262, 519, 521, 524, 530}
\* Vertical velocities in tenths of a pixel per second
WallVelocities == {-2718, -990, 0, 990, 2718}
WallSizes == {16, 19}
WallDts == {16, 300}

InitWall ==
    /\ \E size \in WallSizes : settings = [RuntimeSettings EXCEPT !.ball.size = size]
    /\ patchCall = NoPatchCall
    /\ nPatches = 0
    /\ InitBusIdle
    /\ InitManagerIdle
    /\ InitAppIdle
    /\ InitPaddleIdle
    /\ match = [bot_mode |-> None]
    /\ matchCall = [op |-> None]
    /\ nFrames = 0
    /\ nRequests = 0
    /\ ballLog = <<>>
    /\ \E y \in WallYs : \E vy \in WallVelocities :
           ball = [ball_id |-> 1, x |-> 472 * PosScale, y |-> y * PosScale,
                   velocity_x |-> 300 * VelScale, velocity_y |-> vy]
    /\ bounceCall = [op |-> None, n |-> 0]

WallBecomes(b, op) ==
    /\ bounceCall.n < MaxWallSteps
    /\ ball' = b
    /\ bounceCall' = [op |-> op, before |-> ball, n |-> bounceCall.n + 1]
    /\ UNCHANGED <<settingsVars, busVars, managerVars, appVars, paddleVars,
                   match, matchCall, nFrames, nRequests, ballLog>>

\* ball.update(dt)
BallMoves(dt) == WallBecomes(BallUpdate(ball, dt), "update")

\* The wall part of the resolver's loop body for the ball
WallStep == WallBecomes(WallBounce(ball, settings), "wall")

NextWall ==
    \/ \E dt \in WallDts : BallMoves(dt)
    \/ WallStep

SpecWall == InitWall /\ [][NextWall]_vars

\* The y of a ball resting on the bottom bound
BottomY == (settings.display.height - settings.ball.size) * PosScale

\* C28: the wall step leaves x and the horizontal velocity alone; a ball
\* at or above the top bound (y <= 0) that moves up is put at y = 0 with
\* its vertical velocity negated once, so that it moves down; a ball at or
\* below the bottom bound (y + size >= display.height) that moves down is
\* put at y = display.height - size with its vertical velocity negated
\* once, so that it moves up; every other ball, also one at a bound that
\* moves away from it or does not move vertically, is left as it was.
C28_WallReflection ==
    bounceCall.op = "wall" =>
        LET b == bounceCall.before
            atTop == b.y <= 0 /\ b.velocity_y < 0
            atBottom == b.y >= BottomY /\ b.velocity_y > 0
        IN /\ ball.x = b.x
           /\ ball.velocity_x = b.velocity_x
           /\ atTop => (ball.y = 0 /\ ball.velocity_y = -b.velocity_y
                        /\ ball.velocity_y > 0)
           /\ atBottom => (ball.y = BottomY /\ ball.velocity_y = -b.velocity_y
                           /\ ball.velocity_y < 0)
           /\ ~(atTop \/ atBottom) => ball = b

\* A ball that had moved past the bottom bound going down was put on the
\* bound and now moves up.
C28_Witness ==
    /\ bounceCall.op = "wall"
    /\ bounceCall.before.y > BottomY
    /\ bounceCall.before.velocity_y > 0
    /\ ball.y = BottomY
    /\ ball.velocity_y < 0

(***************************************************************************)
(* A match against the bot in each difficulty, with no, one or two balls   *)
(* per round                                                               *)
(***************************************************************************)
MaxBotFrames == 3   \* PongGame.update calls per behaviour
BotDifficulties == {"easy", "medium", "hard", "ai", "custom"}
BotCounts == {0, 1, 2}
BotDts == {16, 700}
BotKeys == {NoKeys, [NoKeys EXCEPT !.up = TRUE]}

InitBot ==
    \E count \in BotCounts : \E bot \in BotDifficulties : \E dirs \in Directions(count) :
        Constructed(StoreWith(10, count), bot, dirs)

NextBot == nFrames < MaxBotFrames /\ Frames(BotDts, BotKeys)

SpecBot == InitBot /\ [][NextBot]_vars

\* The difficulty multiplier of a bot mode, in hundredths
Difficulty(mode) ==
    IF mode = "easy" THEN 70
    ELSE IF mode = "hard" THEN 115
    ELSE IF mode = "ai" THEN 125
    ELSE 100

\* The balls that were nearest in x to the right paddle when the last frame
\* began
NearestInX ==
    LET dist(b) == Abs(b.x - matchCall.before.right.x * PosScale)
    IN {b \in Range(matchCall.before.balls) :
            \A c \in Range(matchCall.before.balls) : dist(b) <= dist(c)}

\* How far the centre of ball b was below the centre of the right paddle
\* when the last frame began, in position units
BelowPaddle(b) ==
    (b.y + (matchCall.beforeStore.ball.size * PosScale) \div 2)
        - (matchCall.before.right.y
               + (matchCall.beforeStore.paddle.height * PosScale) \div 2)

\* C30: in a frame that advances a game in bot mode, the keys the bot holds
\* are never up and down together; it holds neither when there is no live
\* ball; otherwise there is a ball nearest in x to the right paddle such
\* that it holds neither key when the ball's centre is within 6 pixels of
\* the paddle's centre, only up when the ball's centre is higher and only
\* down when it is lower; and unless the round was reset in the frame, the
\* right paddle has moved by paddle.speed * dt times the difficulty
\* multiplier (easy 0.7, medium 1.0, hard 1.15, ai 1.25, others 1.0) in
\* the direction held, clamped to the display, whatever arrow keys are
\* pressed.
C30_BotInput ==
    (Advanced /\ matchCall.before.bot_mode # None) =>
        LET ai == matchCall.ai
            direction == (IF ai.up THEN -1 ELSE 0) + (IF ai.down THEN 1 ELSE 0)
            step == matchCall.beforeStore.paddle.speed
                        * Difficulty(matchCall.before.bot_mode) * matchCall.dt
            lowest == (matchCall.beforeStore.display.height
                           - matchCall.beforeStore.paddle.height) * PosScale
        IN /\ ~(ai.up /\ ai.down)
           /\ matchCall.before.balls = <<>> => (~ai.up /\ ~ai.down)
           /\ matchCall.before.balls # <<>> =>
                  \E b \in NearestInX :
                      IF Abs(BelowPaddle(b)) <= 6 * PosScale
                      THEN ~ai.up /\ ~ai.down
                      ELSE /\ ai.up = (BelowPaddle(b) < 0)
                           /\ ai.down = (BelowPaddle(b) > 0)
           /\ Published("_reset_round") = <<>> =>
                  match.right.y
                      = Max(0, Min(lowest, matchCall.before.right.y + direction * step))

\* The bot, on easy, followed the nearer of two balls with arrow up
\* pressed on the keyboard: it held down and the right paddle moved down by
\* 0.7 of the paddle speed.
C30_Witness ==
    /\ Advanced
    /\ matchCall.before.bot_mode = "easy"
    /\ Len(matchCall.before.balls) = 2
    /\ matchCall.keys.up
    /\ matchCall.ai.down
    /\ NearestInX # {matchCall.before.balls[1]}
    /\ match.right.y = matchCall.before.right.y
           + matchCall.beforeStore.paddle.speed * 70 * matchCall.dt


(***************************************************************************)
(* The Match Session behind the scenes: PlayScene builds the PongGame,     *)
(* the run loop updates the current scene once per frame, and the pause    *)
(* scene resumes the match or drops it                                     *)
(***************************************************************************)
MaxSessionFrames == 2     \* frames of GameApp.run per behaviour
MaxSessionHistory == 8    \* length of _history with a match in play

SessionDts == {2000}
SessionKeys == {NoKeys, [NoKeys EXCEPT !.space = TRUE]}
SessionDifficulties == {"easy", "hard"}

\* The listeners of the PongGame numbered id. The listeners of a PongGame
\* that PlayScene dropped stay on the bus, and act on the dropped object.
Own(ls, id) ==
    [k \in DOMAIN ls |-> SelectSeq(ls[k], LAMBDA l : l.owner = id)]

\* The bus after a dispatch that went through the listeners of one PongGame
Rejoin(all, own) ==
    [k \in DOMAIN own |-> IF k \in DOMAIN all THEN all[k] ELSE <<>>]

\* A scene whose update(dt) advances the match even while it is paused
SceneUpdates_WhilePaused(scene) == scene \in {"play", "pause"}

\* The scenes whose update(dt) calls PongGame.update: PlayScene.update
\* does, every other scene's update leaves the PongGame alone.
SceneUpdates(scene) == scene = "play"

\* PlayScene.on_enter that always builds a new PongGame
PlaySceneGame_AlwaysNew(dirs) ==
    \E w \in {Construct(settings, <<>>, bot_difficulty', dirs)} :
       /\ Drawn(w, FirstRnd)
       /\ match' = w.g
       /\ ballLog' = w.assigned
       /\ matchCall' = [op |-> "__init__", dt |-> 0, keys |-> NoKeys, s |-> "",
                        values |-> <<>>, n |-> 0, before |-> match,
                        beforeStore |-> settings, trace |-> w.log,
                        assigned |-> w.assigned, unresolved |-> <<>>,
                        resolved |-> <<>>, err |-> w.err]

\* PlayScene.on_enter: the PongGame it builds when it holds none, and the
\* bot mode it sets on the one it holds. The record of the construction
\* keeps, as before, the PongGame that was built last and dropped.
PlaySceneGame(dirs) ==
    IF game = NoGame
    THEN \E w \in {Construct(settings, <<>>, bot_difficulty', dirs)} :
            /\ Drawn(w, FirstRnd)
            /\ match' = w.g
            /\ ballLog' = w.assigned
            /\ matchCall' = [op |-> "__init__", dt |-> 0, keys |-> NoKeys, s |-> "",
                             values |-> <<>>, n |-> 0, before |-> match,
                             beforeStore |-> settings, trace |-> w.log,
                             assigned |-> w.assigned, unresolved |-> <<>>,
                             resolved |-> <<>>, err |-> w.err]
    ELSE /\ dirs = [i \in 1..Len(dirs) |-> 1]
         /\ match' = [match EXCEPT !.bot_mode = bot_difficulty']
         /\ UNCHANGED <<ballLog, matchCall>>

\* PlayMenuScene._select(value) with the PongGame PlayScene.on_enter builds
SessionPlayMenuSelect(value, dirs) ==
    /\ Handles("play_menu")
    /\ game = NoGame => gamesMade < MaxGames
    /\ bot_difficulty' = value
    /\ Goes("play")
    /\ PlaySceneOnEnter(set_scene(Manager, "play"))
    /\ PlaySceneGame(dirs)
    /\ UNCHANGED <<settingsVars, subLog, busCall, paddleVars, nFrames, nRequests, ball,
                   bounceCall, return_scene, confirm_open, quitPosted, running, loop,
                   settingsData, nAdjust, selected_items, loadout_trail, nSelects>>

\* PauseScene.handle_event, Escape or P, and the Resume button, with the
\* PongGame PlayScene holds
SessionResume(dirs) ==
    /\ Handles("pause")
    /\ bot_difficulty' = bot_difficulty
    /\ Goes("play")
    /\ PlaySceneOnEnter(set_scene(Manager, "play"))
    /\ PlaySceneGame(dirs)
    /\ UNCHANGED <<settingsVars, subLog, busCall, paddleVars, nFrames, nRequests, ball,
                   bounceCall, return_scene, confirm_open, quitPosted, running, loop,
                   settingsData, nAdjust, selected_items, loadout_trail, nSelects>>

\* One frame of GameApp.run after its events: manager.update(dt) calls the
\* update of the current scene
SessionFrame(dt, keys, dirs, rnd) ==
    /\ loop = "frames"
    /\ nFrames' = nFrames + 1
    /\ sceneCall' = [op |-> "update", name |-> current, error |-> None,
                     before |-> [current |-> current, history |-> history]]
    /\ IF SceneUpdates(current) /\ game # NoGame
       THEN \E w \in {update(World(settings, Own(listeners, game.id), match, dirs, rnd),
                             dt, keys)} :
               /\ Drawn(w, rnd)
               /\ match' = w.g
               /\ settings' = w.store
               /\ listeners' = Rejoin(listeners, w.ls)
               /\ ballLog' = ballLog \o w.assigned
               /\ matchCall' = [op |-> "update", dt |-> dt, keys |-> keys, s |-> "",
                                values |-> <<>>, n |-> 0, before |-> match,
                                beforeStore |-> settings, trace |-> w.log,
                                assigned |-> w.assigned, unresolved |-> w.unresolved,
                                resolved |-> w.resolved, err |-> w.err, ai |-> w.ai]
       ELSE /\ dirs = <<>>
            /\ rnd = FirstRnd
            /\ dt = 16
            /\ keys = NoKeys
            /\ UNCHANGED <<settings, listeners, match, ballLog, matchCall>>
    /\ UNCHANGED <<patchCall, nPatches, subLog, busCall, current, history, hooks,
                   entered, reentered, appVars, paddleVars, nRequests, ball, bounceCall>>

SessionEvent ==
    \/ TitleRoute("Play")
    \/ ModeSelect("play_menu")
    \/ \E value \in SessionDifficulties :
           \E dirs \in Directions(settings.ball.count_on_reset) :
               SessionPlayMenuSelect(value, dirs)
    \/ PlayKeyPause
    \/ \E dirs \in Directions(settings.ball.count_on_reset) : SessionResume(dirs)
    \/ PauseOpenSettings
    \/ SettingsApply
    \/ SettingsBack
    \/ PauseQuitToTitle

NextSession ==
    \/ Len(history) < MaxSessionHistory /\ SessionEvent
    \/ /\ nFrames < MaxSessionFrames
       /\ IF SceneUpdates(current) /\ game # NoGame
          THEN \E dt \in SessionDts : \E keys \in SessionKeys :
                   \E dirs \in Directions(FrameSpawns(dt, keys)) :
                       \E rnd \in FrameRnd(dt) : SessionFrame(dt, keys, dirs, rnd)
          ELSE SessionFrame(16, NoKeys, <<>>, FirstRnd)

SpecSession == Init /\ [][NextSession]_vars

\* A frame found the match suspended: the pause scene is current, or the
\* settings scene that the pause scene opened.
Paused == current = "pause" \/ (current = "settings" /\ return_scene = "pause")

\* C31: while the pause scene, or the settings scene reached from it, is
\* current, no step changes the match (scores, paddles, balls, live-ball
\* set) unless it quits to the title, whatever the number of frames; the
\* step that resumes keeps the same PongGame with exactly that state.
C31_PausedMatchFrozen ==
    [][(Paused /\ game' # NoGame) => (match' = match /\ game' = game)]_vars

\* A frame ran while the match was paused, after a frame had advanced it,
\* with a ball lost and a point scored or a ball added.
C31_Witness ==
    /\ sceneCall.op = "update"
    /\ current = "pause"
    /\ matchCall.op = "update"
    /\ (match.score.left + match.score.right > 0 \/ Len(match.balls) > 1)

\* C32: the entry into the play scene from the play menu, which after
\* "Quit to Title" is the next entry there is, builds a new PongGame:
\* score 0-0, ball.count_on_reset balls, the bot difficulty chosen in the
\* play menu, whatever the score and the balls of the PongGame that was
\* dropped.
C32_QuitDiscardsSession ==
    [][(current = "play_menu" /\ current' = "play")
           => /\ game = NoGame
              /\ gamesMade' = gamesMade + 1
              /\ game' = [id |-> gamesMade', bot_mode |-> bot_difficulty']
              /\ matchCall'.op = "__init__"
              /\ match'.score = [left |-> 0, right |-> 0]
              /\ Len(match'.balls) = settings.ball.count_on_reset
              /\ BallIds(match'.balls) = 1..settings.ball.count_on_reset
              /\ match'.bot_mode = bot_difficulty']_vars

\* A second PongGame was built after a match with a point scored and two
\* balls live was left with "Quit to Title", with another difficulty.
C32_Witness ==
    /\ gamesMade = 2
    /\ current = "play"
    /\ matchCall.op = "__init__"
    /\ matchCall.before.score.left + matchCall.before.score.right > 0
    /\ Len(matchCall.before.balls) = 2
    /\ matchCall.before.bot_mode # match.bot_mode
    /\ match.score = [left |-> 0, right |-> 0]
    /\ Len(match.balls) = 1

(***************************************************************************)
(* The run loop under its scheduling: every iteration of the while loop    *)
(* takes the events of the queue and tests self.running, so a posted QUIT  *)
(* is taken and the test is made, however many events the scenes handle    *)
(***************************************************************************)
MaxQuitHistory == 5   \* length of _history before the loop quits

SceneEvent ==
    \/ \E label \in {"Play", "Inventory", "Shop", "Settings", "Exit"} : TitleRoute(label)
    \/ \E target \in {"play_menu", None, "title"} : ModeSelect(target)
    \/ \E value \in Difficulties \cup {"title"} : PlayMenuSelect(value)
    \/ PlayKeyPause
    \/ PauseResume
    \/ PauseOpenSettings
    \/ PauseQuitToTitle
    \/ SettingsApply
    \/ SettingsBack
    \/ InventoryApply
    \/ InventoryBack
    \/ ShopBuyCurrent
    \/ ShopCloseConfirm
    \/ ShopBack

NextQuit ==
    \/ Len(history) < MaxQuitHistory /\ SceneEvent
    \/ ConsumeQuit
    \/ LoopExit

SpecQuit == Init /\ [][NextQuit]_vars /\ WF_vars(ConsumeQuit) /\ WF_vars(LoopExit)

\* C33: once the title scene's Exit has posted QUIT the run loop ends; it
\* ends only after QUIT was posted and taken from the queue; taking it
\* clears running and lets the frame finish, the loop ending at the next
\* test of running; and after the loop has ended no step is taken.
C33_CooperativeQuit ==
    /\ [](quitPosted => <>(loop = "quit"))
    /\ [](loop = "quit" => (quitPosted /\ ~running))
    /\ [](~running => quitPosted)
    /\ [][(running /\ ~running') => (quitPosted /\ loop' = "frames")]_vars
    /\ [][loop = "frames"]_vars

\* The loop has ended after Exit, and the scenes handled an event between
\* the click on Exit and the end of the loop.
C33_Witness ==
    /\ loop = "quit"
    /\ quitPosted
    /\ ~running
    /\ current # "title"

(***************************************************************************)
(* Claims about the Apply actions of the menus                             *)
(***************************************************************************)
\* The values SettingsScene._apply requests for the audio section
AudioValues ==
    <<<<"master_volume", settingsData.master_volume>>,
      <<"sfx_volume", settingsData.sfx_volume>>,
      <<"screen_shake", settingsData.screen_shake>>>>

\* C34: when the Apply of the settings scene or of the inventory scene
\* returns without an error, the store holds the values it requested: the
\* audio values, the trail effect of the loadout and the sprites of the
\* selected items.
C34_ApplyReachesStore ==
    [][/\ (SettingsApply /\ loop' = "frames") => Holds(settings', "audio", AudioValues)
       /\ (InventoryApply /\ loop' = "frames")
              => /\ loadout_trail => Holds(settings', "trail", <<<<"effect", TrailId>>>>)
                 /\ Holds(settings', "sprites",
                          [i \in 1..Len(SpriteValues) |->
                               <<SpriteValues[i][1], SpritePath>>])]_vars

\* The calls of PongGame._on_settings_change_requested in a dispatch: each
\* is one settings.patch and one publish of SettingsChanged.
PatchCalls(invoked) ==
    SelectSeq(invoked, LAMBDA c : c[2] = "SettingsChangeRequested")

\* C35: a SettingsChangeRequested published while PlayScene holds a
\* PongGame is handled once, by that PongGame: one patch of the store and
\* one SettingsChanged, also after an earlier PongGame was dropped with
\* "Quit to Title". (Published while no PongGame is held it is not handled
\* by the play scene's PongGame at all.)
C35_OnePatchPerRequest ==
    [][(SettingsApply /\ game # NoGame)
           => /\ Len(PatchCalls(busCall'.invoked)) = 1
              /\ PatchCalls(busCall'.invoked)[1][1].owner = game.id]_vars

(***************************************************************************)
(* Claims about the live-ball set                                          *)
(***************************************************************************)
\* C36: with ball.count_on_reset >= 1, after the construction and at the
\* end of every update that raised no error the list of balls is not empty
\* unless a side has reached match.win_score.
C36_BallsWhileNotWon ==
    (/\ matchCall.op \in {"__init__", "update"}
     /\ matchCall.err = None
     /\ settings.ball.count_on_reset >= 1
     /\ ~Won(match, settings))
        => match.balls # <<>>

\* An update in which the last ball left the field without deciding the
\* match, and the round was reset.
C36_Witness ==
    /\ matchCall.op = "update"
    /\ Published("PointScored") # <<>>
    /\ Published("_reset_round") # <<>>
    /\ ~Won(match, settings)
    /\ Len(match.balls) = settings.ball.count_on_reset

\* The ball ids the last operation announced with events of a kind
Announced(kind) == {Published(kind)[i].n : i \in 1..Len(Published(kind))}

\* C37: every operation keeps the event stream and the list of balls in
\* step: the ids live after it are the ids live before it and the ids it
\* announced with BallSpawned, without the ids it announced with
\* BallRemoved; so the ids announced as spawned and not as removed are the
\* live ones, also after a restart.
C37_StreamMirrorsBalls ==
    (matchCall.op # None /\ matchCall.err = None)
        => BallIds(match.balls)
               = ((IF matchCall.op = "__init__" THEN {} ELSE BallIds(matchCall.before.balls))
                      \cup Announced("BallSpawned"))
                 \ Announced("BallRemoved")

\* C38: at the end of every update in which no side has won, every ball
\* of the list lies between the top of the display and the bottom less
\* the ball size, as the store holds them then.
C38_BallsInsideVertically ==
    (matchCall.op = "update" /\ matchCall.err = None /\ ~Won(match, settings))
        => \A i \in 1..Len(match.balls) :
               /\ 0 <= match.balls[i].y
               /\ match.balls[i].y
                      <= (settings.display.height - settings.ball.size) * PosScale

(***************************************************************************)
(* A ball that comes off the right paddle at a shallow angle, reaches the  *)
(* bottom of the display and is there when the chaos system fires          *)
(***************************************************************************)
MaxEdgeFrames == 5   \* PongGame.update calls per behaviour

EdgeDts == {16, 300, 1200, 2742}
EdgeKeys == {NoKeys, [NoKeys EXCEPT !.down = TRUE]}

InitEdge == \E dirs \in Directions(1) : Constructed(RuntimeSettings, None, dirs)

NextEdge == nFrames < MaxEdgeFrames /\ Frames(EdgeDts, EdgeKeys)

SpecEdge == InitEdge /\ [][NextEdge]_vars

(***************************************************************************)
(* The scene graph: the ways out of the title scene and the ways back      *)
(***************************************************************************)
MaxReturnHistory == 5   \* length of _history on the ways out of the title

\* The UI actions that lead away from the title scene or stay in a scene
OutwardEvent ==
    \/ \E label \in {"Play", "Inventory", "Shop", "Settings", "Exit"} : TitleRoute(label)
    \/ \E target \in {"play_menu", None} : ModeSelect(target)
    \/ \E value \in Difficulties : PlayMenuSelect(value)
    \/ PauseResume
    \/ PauseOpenSettings
    \/ SettingsApply
    \/ InventoryApply
    \/ ShopBuyCurrent

\* In each scene but the title, the UI action on the way back to it: the
\* back buttons, the pause key, "Quit to Title", the closing of the
\* confirm box
HomeStep ==
    \/ ModeSelect("title")
    \/ PlayMenuSelect("title")
    \/ PlayKeyPause
    \/ PauseQuitToTitle
    \/ SettingsBack
    \/ InventoryBack
    \/ ShopCloseConfirm
    \/ ShopBack

\* The UI actions on the way from the title scene to the play scene
PlayStep ==
    \/ TitleRoute("Play")
    \/ ModeSelect("play_menu")
    \/ PlayMenuSelect("easy")

NextReturn ==
    \/ Len(history) < MaxReturnHistory /\ OutwardEvent
    \/ HomeStep
    \/ ConsumeQuit
    \/ LoopExit

SpecReturn == Init /\ [][NextReturn]_vars

\* The number of HomeStep actions from the current scene to the title
HomeRank ==
    CASE current = "title" -> 0
      [] current \in {"mode_select", "inventory", "pause"} -> 1
      [] current = "shop" -> IF confirm_open THEN 2 ELSE 1
      [] current = "settings" -> IF return_scene = "title" THEN 1 ELSE 2
      [] current \in {"play_menu", "play"} -> 2

\* The number of PlayStep actions from the current scene to the play scene
PlayRank ==
    CASE current = "title" -> 3
      [] current = "mode_select" -> 2
      [] current = "play_menu" -> 1
      [] OTHER -> 0

\* C39: while the run loop is looping, every scene but the title offers a
\* UI action on the way back, and each such action brings the title scene
\* one step nearer, so at most two of them make it current again; in the
\* same way the title, mode_select and play_menu scenes offer an action
\* towards the play scene, three from the title.
C39_NoTrappingScene ==
    /\ []((loop = "frames" /\ current # "title") => ENABLED <<HomeStep>>_vars)
    /\ [][HomeStep => HomeRank' < HomeRank]_vars
    /\ []((loop = "frames" /\ current \in {"title", "mode_select", "play_menu"})
              => ENABLED <<PlayStep>>_vars)
    /\ [][PlayStep => PlayRank' < PlayRank]_vars

\* The title scene is current again after the play scene, the pause scene
\* and the settings scene opened from it.
C39_Witness ==
    /\ current = "title"
    /\ loop = "frames"
    /\ {"mode_select", "play_menu", "play", "pause", "settings"} \subseteq Range(history)
    /\ Len(history) >= 7

====
